---- MODULE Spec2Model ----
(***************************************************************************)
(* Token lifecycle and request executor of mcp-zoho-inventory.             *)
(*                                                                         *)
(* One client object of one process: the split ZohoClient / ZohoAuth       *)
(* (client.py, auth.py) or the monolithic ZohoInventoryClient              *)
(* (zoho_inventory_client.py), chosen by impl.  The thread of control is   *)
(* followed statement group by statement group (pc); the refresh endpoint, *)
(* the inventory API, the file system and the clock are the environment    *)
(* and answer nondeterministically.                                        *)
(***************************************************************************)
EXTENDS Integers, Sequences, FiniteSets, TLC

(***************************************************************************)
(* Program constants.                                                      *)
(***************************************************************************)
Margin == 300
DefaultExpiresIn == 3600

(***************************************************************************)
(* Bounds of the model.                                                    *)
(***************************************************************************)
MaxTicks == 2
MaxCalls == 2
MaxStoreOps == 3
MaxStockOps == 3

(***************************************************************************)
(* Python values.  None is a value of its own; a dict is a function whose  *)
(* domain is the set of keys it holds.                                     *)
(***************************************************************************)
None == "<None>"

Truthy(v) == v /= None /\ v /= ""

Str(v) == IF v = None THEN "None" ELSE v

EmptyDict == [k \in {} |-> None]

DictGet(d, k, default) == IF k \in DOMAIN d THEN d[k] ELSE default

DictUpdate(d, e) == [k \in (DOMAIN d) \cup (DOMAIN e) |-> IF k \in DOMAIN e THEN e[k] ELSE d[k]]

DictPop(d, k) == [j \in (DOMAIN d) \ {k} |-> d[j]]

(***************************************************************************)
(* Values the environment may produce.                                     *)
(***************************************************************************)
Tokens == {"t1", "t2"}

TickSteps == {Margin}

\* body of the refresh endpoint's 2xx JSON answer: access_token and
\* expires_in are each present or not; the lifetimes are shorter than the
\* margin, longer, and the default
RefreshBodies ==
    { [k \in {"access_token", "expires_in"} |-> IF k = "access_token" THEN "t1" ELSE e] :
          e \in {Margin - 100} }
    \cup { [k \in {"access_token", "expires_in"} |-> IF k = "access_token" THEN "t2" ELSE 2 * Margin] }
    \cup { [k \in {"access_token"} |-> "t2"] }
    \cup { [k \in {"expires_in"} |-> Margin] }

\* outcomes of the POST to the token endpoint
RefreshOutcomes ==
    { [kind |-> "transport"], [kind |-> "status"], [kind |-> "badjson"] }
    \cup { [kind |-> "json", body |-> b] : b \in RefreshBodies }

\* outcomes of the cache file write
SaveOutcomes == {"written", "not_opened", "truncated"}

\* outcomes of one HTTP call to the inventory API: a status or a transport error
HttpOutcomes ==
    { [kind |-> "transport"] }
    \cup { [kind |-> "response", status_code |-> c] : c \in {200, 401, 500} }

\* contents of the token cache file
MissingFile == [kind |-> "missing"]
MalformedFile == [kind |-> "malformed"]
\* the file exists and open() fails on it
UnreadableFile == [kind |-> "unreadable"]
\* stat() of the path fails with an error other than "not found" (a
\* directory of the path cannot be searched): Path.exists() lets it through
InaccessibleFile == [kind |-> "inaccessible"]
JsonFile(obj) == [kind |-> "json", obj |-> obj]

TokenData(token, expires_at) ==
    [k \in {"access_token", "expires_at"} |-> IF k = "access_token" THEN token ELSE expires_at]

InitialFiles ==
    { MissingFile, MalformedFile, InaccessibleFile }
    \cup { JsonFile(TokenData("t0", x)) : x \in {0, 3 * Margin} }
    \cup { JsonFile([k \in {"access_token"} |-> "t0"]),
           JsonFile([k \in {"expires_at"} |-> 3 * Margin]) }

\* headers a caller may pass in kwargs
UserHeaderChoices ==
    { [k \in {"Authorization", "X-Request-Id"} |->
          IF k = "Authorization" THEN <<"Bearer", "user">> ELSE <<"abc">>] }

KwargsChoices ==
    { EmptyDict } \cup { [k \in {"headers"} |-> h] : h \in UserHeaderChoices }

VARIABLES
    impl,            \* "split" (ZohoClient + ZohoAuth) or "mono" (ZohoInventoryClient)
    now,             \* time.time()
    cache,           \* contents of TOKEN_FILE
    auth_token,      \* self.auth_token
    token_expiry,    \* self.token_expiry
    headers,         \* self.headers of ZohoInventoryClient
    pc,              \* position of the thread of control
    caller,          \* call site the running refresh_access_token returns to
    data,            \* local data / expires_in of refresh_access_token
    kwargs,          \* kwargs of the running make_api_request
    request_headers, \* local request_headers of make_api_request
    calls,           \* number of make_api_request calls started
    trace,           \* events of the running (or last) constructor / request call
    zoho,            \* the item document the upstream serves at items/{item_id}
    frame            \* arguments and locals of the running ItemClient call

vars == <<impl, now, cache, auth_token, token_expiry, headers, pc, caller, data,
          kwargs, request_headers, calls, trace, zoho, frame>>

(***************************************************************************)
(* Pure functions of the program.                                          *)
(***************************************************************************)

\* mutant: the write is skipped
save_token_Skipped(file, token, expires_in, t, outcome) == file

\* save_token: the file after the write, by outcome of the write
save_token(file, token, expires_in, t, outcome) ==
    CASE outcome = "written" -> JsonFile(TokenData(token, t + expires_in))
      [] outcome = "truncated" -> MalformedFile
      [] OTHER -> file

\* an exception leaving load_token, as a result value
PermissionError == "<raise PermissionError>"

\* mutant: the expiry of the cached token is not tested
load_token_NoExpiryTest(file, t) ==
    IF file.kind = "inaccessible" THEN PermissionError
    ELSE IF file.kind = "missing" THEN None
    ELSE IF file.kind \in {"unreadable", "malformed"} THEN None
    ELSE DictGet(file.obj, "access_token", None)

\* mutant: the window of the cached token is closed one second late
load_token_LateExpiry(file, t) ==
    IF file.kind = "inaccessible" THEN PermissionError
    ELSE IF file.kind = "missing" THEN None
    ELSE IF file.kind \in {"unreadable", "malformed"} THEN None
    ELSE IF t > DictGet(file.obj, "expires_at", 0) THEN None
    ELSE DictGet(file.obj, "access_token", None)

\* load_token: the cached token, or None; TOKEN_FILE.exists() stands before
\* the try block, open / json.load / the expiry test inside it
load_token(file, t) ==
    IF file.kind = "inaccessible" THEN PermissionError
    ELSE IF file.kind = "missing" THEN None
    ELSE IF file.kind \in {"unreadable", "malformed"} THEN None
    ELSE IF t >= DictGet(file.obj, "expires_at", 0) THEN None
    ELSE DictGet(file.obj, "access_token", None)

\* ZohoAuth.get_headers / ZohoInventoryClient._get_headers
get_headers(token) ==
    [k \in {"Authorization", "Content-Type"} |->
        IF k = "Authorization" THEN <<"Zoho-oauthtoken", Str(token)>>
        ELSE <<"application/json">>]

\* mutant: no safety margin
NeedsRefresh_NoMargin(t, expiry) == t > expiry

\* mutant: the comparison is turned around
NeedsRefresh_Inverted(t, expiry) == t < (expiry - Margin)

\* the margin test of ensure_valid_token
NeedsRefresh(t, expiry) == t > (expiry - Margin)

\* the headers make_api_request starts from: get_headers() of the auth
\* object, or the cached self.headers of the monolithic client
BaseHeaders(i, token, hdrs) == IF i = "split" THEN get_headers(token) ELSE hdrs

\* request_headers after merging kwargs' headers, and kwargs after the pop
MergedHeaders(base, kw) ==
    IF "headers" \in DOMAIN kw THEN DictUpdate(base, kw["headers"]) ELSE base

PoppedKwargs(kw) == IF "headers" \in DOMAIN kw THEN DictPop(kw, "headers") ELSE kw

\* request_headers of the first attempt
FirstHeaders(i, token, hdrs, kw) == MergedHeaders(BaseHeaders(i, token, hdrs), kw)

\* mutant: the retry reuses the first attempt's request_headers
RetryHeaders_Stale(i, token, hdrs, kw, old) == old

\* request_headers of the retry: built again after the refresh, from what
\* the first attempt left in kwargs; old is the first attempt's request_headers
RetryHeaders(i, token, hdrs, kw, old) == MergedHeaders(BaseHeaders(i, token, hdrs), kw)

(***************************************************************************)
(* Events of the trace.                                                    *)
(***************************************************************************)
Ev(name) == [ev |-> name]

Raise(err) == [ev |-> "raise", err |-> err]

Log(e) == trace' = Append(trace, e)

Log2(e, f) == trace' = Append(Append(trace, e), f)

(***************************************************************************)
(* Initial state: the constructor has checked the credentials and set      *)
(* token_expiry = 0; it is about to call load_token.                       *)
(***************************************************************************)
Init ==
    /\ impl \in {"split", "mono"}
    /\ now = 0
    /\ cache \in InitialFiles
    /\ auth_token = None
    /\ token_expiry = 0
    /\ headers = EmptyDict
    /\ pc = "init_load"
    /\ caller = "init"
    /\ data = EmptyDict
    /\ kwargs = EmptyDict
    /\ request_headers = EmptyDict
    /\ calls = 0
    /\ trace = << Ev("__init__") >>
    /\ zoho = EmptyDict
    /\ frame = EmptyDict

(***************************************************************************)
(* What the call site of refresh_access_token does with its result.        *)
(***************************************************************************)

\* mutant: make_api_request goes on to the HTTP call although
\* ensure_valid_token returned False
AfterRefresh_Proceed(ok) ==
    CASE caller = "init" -> "init_headers"
      [] caller = "ensure" -> "http1"
      [] OTHER -> IF ok THEN "http2" ELSE "idle"

\* mutant: the retry is sent although the forced refresh returned False
AfterRefresh_RetryAnyway(ok) ==
    CASE caller = "init" -> "init_headers"
      [] caller = "ensure" -> IF ok THEN "http1" ELSE "idle"
      [] OTHER -> "http2"

\* position after refresh_access_token returned ok to its call site
AfterRefresh(ok) ==
    CASE caller = "init" -> "init_headers"
      [] caller = "ensure" -> IF ok THEN "http1" ELSE "idle"
      [] OTHER -> IF ok THEN "http2" ELSE "idle"

\* the return of refresh_access_token with result ok: its own end event and
\* the exception the call site raises on False (the constructor ignores the
\* result; a 401 response left unretried fails raise_for_status and is
\* rethrown as the authentication failure)
RefreshReturn(pre, ok, why, token) ==
    /\ pc' = AfterRefresh(ok)
    /\ trace' = trace \o pre
         \o << [ev |-> "refresh_end", via |-> caller, ok |-> ok, why |-> why, token |-> token] >>
         \o (IF ok \/ caller = "init" THEN <<>>
             ELSE IF caller = "ensure" THEN << Raise("TokenUnavailable") >>
             ELSE << Raise("AuthenticationFailed") >>)

(***************************************************************************)
(* The constructor.                                                        *)
(***************************************************************************)

\* self.auth_token = load_token(); refresh when it is falsy
InitLoad ==
    /\ pc = "init_load"
    /\ IF load_token(cache, now) = PermissionError
       THEN /\ auth_token' = auth_token
            /\ pc' = "init_raised"
            /\ Log2([ev |-> "load", file |-> cache, at |-> now], Raise("PermissionError"))
       ELSE /\ auth_token' = load_token(cache, now)
            /\ IF Truthy(auth_token')
               THEN /\ pc' = "init_expiry"
                    /\ Log2([ev |-> "load", file |-> cache, at |-> now],
                            [ev |-> "loaded", token |-> auth_token'])
               ELSE /\ pc' = "refresh_post"
                    /\ Log2([ev |-> "load", file |-> cache, at |-> now],
                            [ev |-> "refresh_begin", via |-> "init", token |-> auth_token'])
    /\ caller' = "init"
    /\ UNCHANGED <<zoho, frame, impl, now, cache, token_expiry, headers, data, kwargs, request_headers, calls>>

\* the token came from the file: read expires_at from the file again
InitExpiry ==
    /\ pc = "init_expiry"
    /\ IF cache.kind = "json"
       THEN /\ token_expiry' = DictGet(cache.obj, "expires_at", 0)
            /\ pc' = "init_headers"
            /\ Log([ev |-> "adopted", token |-> auth_token, expiry |-> token_expiry'])
       ELSE /\ token_expiry' = token_expiry
            /\ pc' = "refresh_post"
            /\ Log([ev |-> "refresh_begin", via |-> "init", token |-> auth_token])
    /\ UNCHANGED <<zoho, frame, impl, now, cache, auth_token, headers, caller, data, kwargs, request_headers, calls>>

\* end of the constructor; the monolithic client caches self.headers
InitHeaders ==
    /\ pc = "init_headers"
    /\ headers' = IF impl = "mono" THEN get_headers(auth_token) ELSE headers
    /\ pc' = "idle"
    /\ Log(Ev("constructed"))
    /\ UNCHANGED <<zoho, frame, impl, now, cache, auth_token, token_expiry, caller, data, kwargs, request_headers, calls>>

(***************************************************************************)
(* refresh_access_token.                                                   *)
(***************************************************************************)

\* the exchange with the token endpoint, up to the test of self.auth_token
RefreshPost ==
    /\ pc = "refresh_post"
    /\ \E o \in RefreshOutcomes :
          LET exchange == << [ev |-> "exchange", via |-> caller, outcome |-> o.kind] >> IN
          IF o.kind = "json"
          THEN /\ auth_token' = DictGet(o.body, "access_token", None)
               /\ IF Truthy(auth_token')
                  THEN /\ data' = o.body
                       /\ pc' = "refresh_save"
                       /\ trace' = trace \o exchange
                  ELSE /\ data' = data
                       /\ RefreshReturn(exchange, FALSE, "no_access_token", auth_token')
          ELSE /\ auth_token' = auth_token
               /\ data' = data
               /\ RefreshReturn(exchange, FALSE, o.kind, auth_token)
    /\ UNCHANGED <<zoho, frame, impl, now, cache, token_expiry, headers, caller, kwargs, request_headers, calls>>

\* expires_in = data.get("expires_in", 3600); save_token(self.auth_token, expires_in)
RefreshSave ==
    /\ pc = "refresh_save"
    /\ \E w \in SaveOutcomes :
          /\ cache' = save_token(cache, auth_token, DictGet(data, "expires_in", DefaultExpiresIn), now, w)
          /\ IF w = "written"
             THEN /\ pc' = "refresh_expiry"
                  /\ Log([ev |-> "saved", file |-> cache'])
             ELSE RefreshReturn(<<>>, FALSE, "save", auth_token)
    /\ UNCHANGED <<zoho, frame, impl, now, auth_token, token_expiry, headers, caller, data, kwargs, request_headers, calls>>

\* self.token_expiry = time.time() + expires_in; return True
RefreshExpiry ==
    /\ pc = "refresh_expiry"
    /\ token_expiry' = now + DictGet(data, "expires_in", DefaultExpiresIn)
    /\ headers' = IF impl = "mono" THEN get_headers(auth_token) ELSE headers
    /\ RefreshReturn(<< [ev |-> "expiry_set", token |-> auth_token, expiry |-> token_expiry', at |-> now] >>,
                     TRUE, "ok", auth_token)
    /\ UNCHANGED <<zoho, frame, impl, now, cache, auth_token, caller, data, kwargs, request_headers, calls>>

(***************************************************************************)
(* make_api_request.                                                       *)
(***************************************************************************)

\* the last successful refresh of the activity a trace describes: its
\* expiry_set event, if there is one
LastRefresh(tr) ==
    LET set == SelectSeq(tr, LAMBDA e : e.ev = "expiry_set") IN
    IF set = << >> THEN Ev("none") ELSE set[Len(set)]

\* a caller starts a request
MakeApiRequest ==
    /\ pc = "idle"
    /\ calls < MaxCalls
    /\ calls' = calls + 1
    /\ kwargs' \in KwargsChoices
    /\ request_headers' = EmptyDict
    /\ pc' = "ensure"
    /\ trace' = << [ev |-> "call", token |-> auth_token, expiry |-> token_expiry, file |-> cache,
                     kwargs |-> kwargs', last_refresh |-> LastRefresh(trace)] >>
    /\ UNCHANGED <<zoho, frame, impl, now, cache, auth_token, token_expiry, headers, caller, data>>

\* ensure_valid_token
EnsureValidToken ==
    /\ pc = "ensure"
    /\ IF NeedsRefresh(now, token_expiry)
       THEN /\ pc' = "refresh_post"
            /\ caller' = "ensure"
            /\ Log2([ev |-> "ensure", at |-> now, expiry |-> token_expiry, refresh |-> TRUE],
                    [ev |-> "refresh_begin", via |-> "ensure", token |-> auth_token])
       ELSE /\ pc' = "http1"
            /\ caller' = caller
            /\ Log([ev |-> "ensure", at |-> now, expiry |-> token_expiry, refresh |-> FALSE])
    /\ UNCHANGED <<zoho, frame, impl, now, cache, auth_token, token_expiry, headers, data, kwargs, request_headers, calls>>

\* mutant: a 401 is answered by refresh and retry on every attempt
RefreshAndRetry_EveryAttempt(attempt, o) ==
    o.kind = "response" /\ o.status_code = 401

\* mutant: every error status of the first attempt is answered by refresh and retry
RefreshAndRetry_AnyError(attempt, o) ==
    o.kind = "response" /\ o.status_code >= 400 /\ attempt = 1

\* the response leads to the forced refresh: a 401, tested once, after the
\* first attempt only
RefreshAndRetry(attempt, o) ==
    o.kind = "response" /\ o.status_code = 401 /\ attempt = 1

\* what follows one HTTP response or transport error, first attempt or retry
Respond(attempt, sent, o) ==
    LET http == [ev |-> "http", attempt |-> attempt, headers |-> sent, outcome |-> o] IN
    IF o.kind = "transport"
    THEN /\ pc' = "idle"
         /\ caller' = caller
         /\ Log2(http, Raise("TransportError"))
    ELSE IF RefreshAndRetry(attempt, o)
    THEN /\ pc' = "refresh_post"
         /\ caller' = "retry"
         /\ Log2(http, [ev |-> "refresh_begin", via |-> "retry", token |-> auth_token])
    ELSE IF o.status_code = 401
    THEN /\ pc' = "idle"
         /\ caller' = caller
         /\ Log2(http, Raise("AuthenticationFailed"))
    ELSE IF o.status_code >= 400
    THEN /\ pc' = "idle"
         /\ caller' = caller
         /\ Log2(http, [ev |-> "raise", err |-> "HTTPStatusError", status_code |-> o.status_code])
    ELSE /\ pc' = "idle"
         /\ caller' = caller
         /\ Log2(http, [ev |-> "return", status_code |-> o.status_code])

\* first attempt
Http1 ==
    /\ pc = "http1"
    /\ request_headers' = FirstHeaders(impl, auth_token, headers, kwargs)
    /\ kwargs' = PoppedKwargs(kwargs)
    /\ \E o \in HttpOutcomes : Respond(1, request_headers', o)
    /\ UNCHANGED <<zoho, frame, impl, now, cache, auth_token, token_expiry, headers, data, calls>>

\* the retry after a 401 and a successful refresh
Http2 ==
    /\ pc = "http2"
    /\ request_headers' = RetryHeaders(impl, auth_token, headers, kwargs, request_headers)
    /\ kwargs' = PoppedKwargs(kwargs)
    /\ \E o \in HttpOutcomes : Respond(2, request_headers', o)
    /\ UNCHANGED <<zoho, frame, impl, now, cache, auth_token, token_expiry, headers, data, calls>>

\* positions whose statement reads the clock next, or (refresh_post) waits
\* for the network before the next read
ClockReaders == {"init_load", "ensure", "refresh_post", "refresh_expiry", "store"}

(***************************************************************************)
(* The clock.                                                              *)
(***************************************************************************)
Tick ==
    /\ pc \in ClockReaders
    /\ \E d \in TickSteps :
          /\ now + d <= MaxTicks * Margin
          /\ now' = now + d
    /\ UNCHANGED <<zoho, frame, impl, cache, auth_token, token_expiry, headers, pc, caller, data,
                   kwargs, request_headers, calls, trace>>

Next ==
    \/ InitLoad
    \/ InitExpiry
    \/ InitHeaders
    \/ RefreshPost
    \/ RefreshSave
    \/ RefreshExpiry
    \/ MakeApiRequest
    \/ EnsureValidToken
    \/ Http1
    \/ Http2
    \/ Tick

Spec == Init /\ [][Next]_vars

(***************************************************************************)
(* Reading the trace of a make_api_request call.                           *)
(***************************************************************************)
IsCall == trace[1].ev = "call"

Idx == 1..Len(trace)

Is(i, name) == trace[i].ev = name

\* the HTTP calls, the token exchanges and the exceptions of the call, in order
Https == SelectSeq(trace, LAMBDA e : e.ev = "http")

Exchanges == SelectSeq(trace, LAMBDA e : e.ev = "exchange")

ExchangesVia(site) == SelectSeq(trace, LAMBDA e : e.ev = "exchange" /\ e.via = site)

Raised == SelectSeq(trace, LAMBDA e : e.ev = "raise")

\* the call has ended (it returned or raised)
Ended == pc = "idle" /\ (Is(Len(trace), "raise") \/ Is(Len(trace), "return"))

Status(h) == IF h.outcome.kind = "response" THEN h.outcome.status_code ELSE 0

\* refresh_access_token, called from site, has returned ok
RefreshEnded(site, ok) ==
    \E i \in Idx : Is(i, "refresh_end") /\ trace[i].via = site /\ trace[i].ok = ok

\* ensure_valid_token has returned
EnsureReturned ==
    /\ Len(trace) >= 2
    /\ Is(2, "ensure")
    /\ (trace[2].refresh => \E i \in Idx : Is(i, "refresh_end") /\ trace[i].via = "ensure")

(***************************************************************************)
(* C1  A request whose first response is 401 and whose retried response    *)
(* after the refresh is 401 again raises exactly one authentication-failed *)
(* error, with at most 2 HTTP calls and at most 1 token exchange.          *)
(***************************************************************************)
Twice401 ==
    /\ IsCall
    /\ Len(Https) >= 2
    /\ Status(Https[1]) = 401
    /\ Status(Https[2]) = 401

\* C1 as claimed: a 401 followed by a 401 after the refresh ends the call
\* with exactly one authentication-failed error, at most 2 HTTP calls and at
\* most 1 token exchange.  Violated: the margin check of ensure_valid_token
\* may already have exchanged once before the first attempt.
C1_AsClaimed ==
    Twice401 =>
        /\ Ended
        /\ Raised = << Raise("AuthenticationFailed") >>
        /\ Len(Https) <= 2
        /\ Len(Exchanges) <= 1

\* C1 amended: such a call ends with exactly one authentication-failed
\* error after 2 HTTP calls and at most 2 token exchanges, exactly one of
\* them forced by the 401 and at most one made by the margin check before
\* the first attempt.
C1_SingleRetryBound ==
    Twice401 =>
        /\ Ended
        /\ Raised = << Raise("AuthenticationFailed") >>
        /\ Len(Https) = 2
        /\ Len(ExchangesVia("retry")) = 1
        /\ Len(ExchangesVia("ensure")) <= 1
        /\ Len(Exchanges) <= 2

\* C1 witness: a call answered 401 twice has ended after two exchanges
C1_Witness == Twice401 /\ Ended /\ Len(Exchanges) = 2

(***************************************************************************)
(* C2  When ensure_valid_token returns false at the start of               *)
(* make_api_request, the call fails with an error and sends no HTTP        *)
(* request.                                                                *)
(***************************************************************************)
\* C2: once ensure_valid_token has returned False the call has ended with
\* the token-unavailable error and has sent no HTTP request.
C2_NoRequestWithoutToken ==
    (IsCall /\ RefreshEnded("ensure", FALSE)) =>
        /\ Ended
        /\ Https = << >>
        /\ Raised = << Raise("TokenUnavailable") >>

\* C2 witness: a call ended because ensure_valid_token returned False
C2_Witness == IsCall /\ RefreshEnded("ensure", FALSE) /\ Ended /\ Https = << >>

(***************************************************************************)
(* C3  When the first response is 401 and the forced refresh succeeds, the *)
(* request is retried exactly once and the retry's Authorization header is *)
(* built from the access token that refresh returned.                      *)
(***************************************************************************)
\* C3: a call whose forced refresh succeeded ends after exactly two HTTP
\* calls, the first answered 401, the second carrying "Zoho-oauthtoken" with
\* the token that refresh returned.
C3_RetryWithFreshToken ==
    (IsCall /\ Ended /\ RefreshEnded("retry", TRUE)) =>
        /\ Len(Https) = 2
        /\ Status(Https[1]) = 401
        /\ Https[2].attempt = 2
        /\ \A i \in Idx :
              (Is(i, "refresh_end") /\ trace[i].via = "retry") =>
                  Https[2].headers["Authorization"] = <<"Zoho-oauthtoken", Str(trace[i].token)>>

\* C3 witness: the retry went out with a token other than the first attempt's
C3_Witness ==
    /\ IsCall /\ Ended /\ RefreshEnded("retry", TRUE)
    /\ Len(Https) = 2
    /\ Https[1].headers["Authorization"][1] = "Zoho-oauthtoken"
    /\ Https[2].headers["Authorization"] /= Https[1].headers["Authorization"]

(***************************************************************************)
(* C4  When the first response is 401 and the forced refresh fails, no     *)
(* second HTTP call is made and the authentication-failed error is raised. *)
(***************************************************************************)
\* C4: once the refresh forced by a 401 has returned False the call has
\* ended with the authentication-failed error after its single HTTP call.
C4_NoRetryAfterFailedRefresh ==
    (IsCall /\ RefreshEnded("retry", FALSE)) =>
        /\ Ended
        /\ Len(Https) = 1
        /\ Raised = << Raise("AuthenticationFailed") >>

\* C4 witness: a call ended after a 401 and a failed forced refresh
C4_Witness == IsCall /\ RefreshEnded("retry", FALSE) /\ Ended /\ Len(Https) = 1

(***************************************************************************)
(* C5  When the first attempt ends in a transport error or a status >= 400 *)
(* other than 401, the error propagates after exactly one HTTP call: no    *)
(* retry, and no token refresh triggered by the failure.                   *)
(***************************************************************************)
FirstAttemptFailed ==
    /\ IsCall
    /\ Https /= << >>
    /\ \/ Https[1].outcome.kind = "transport"
       \/ (Status(Https[1]) >= 400 /\ Status(Https[1]) /= 401)

\* C5: a first attempt that ends in a transport error or in a status >= 400
\* other than 401 ends the call with that error after one HTTP call, with no
\* refresh begun after it.
C5_OtherFailuresPropagate ==
    FirstAttemptFailed =>
        /\ Ended
        /\ Len(Https) = 1
        /\ Len(ExchangesVia("retry")) = 0
        /\ ~ \E i \in Idx : Is(i, "refresh_begin") /\ trace[i].via = "retry"
        /\ Len(Raised) = 1
        /\ IF Https[1].outcome.kind = "transport"
           THEN Raised[1] = Raise("TransportError")
           ELSE Raised[1] = [ev |-> "raise", err |-> "HTTPStatusError",
                             status_code |-> Status(Https[1])]

\* C5 witness: a call ended on a 500 after the margin check had refreshed
C5_Witness ==
    /\ FirstAttemptFailed /\ Ended
    /\ Status(Https[1]) = 500
    /\ Len(Exchanges) = 1

(***************************************************************************)
(* C6  For every token state with token_expiry <= now + 300 (expired       *)
(* tokens and the boundary token_expiry = now + 300 included),             *)
(* ensure_valid_token performs exactly one refresh exchange.               *)
(***************************************************************************)
\* C6 as claimed: ensure_valid_token exchanges exactly once whenever
\* token_expiry <= now + 300.  Violated at the boundary, where the code's
\* test now > token_expiry - 300 is false and nothing is exchanged.
C6_AsClaimed ==
    (IsCall /\ EnsureReturned /\ trace[2].expiry <= trace[2].at + Margin) =>
        Len(ExchangesVia("ensure")) = 1

\* C6 amended: ensure_valid_token exchanges exactly once whenever
\* token_expiry < now + 300, and not at all at token_expiry = now + 300.
C6_StaleTokenRefreshedOnce ==
    (IsCall /\ EnsureReturned) =>
        /\ trace[2].expiry < trace[2].at + Margin => Len(ExchangesVia("ensure")) = 1
        /\ trace[2].expiry = trace[2].at + Margin => Len(ExchangesVia("ensure")) = 0

\* C6 witness: an unexpired token inside the margin was exchanged
C6_Witness ==
    /\ IsCall /\ EnsureReturned
    /\ trace[2].expiry < trace[2].at + Margin
    /\ trace[2].expiry > trace[2].at
    /\ Len(ExchangesVia("ensure")) = 1

(***************************************************************************)
(* C7  For every token state with token_expiry > now + 300,                *)
(* ensure_valid_token returns true without a network call and without      *)
(* changing the token, its expiry or the cache file.                       *)
(***************************************************************************)
EnsureFresh ==
    /\ IsCall
    /\ Len(trace) >= 2
    /\ Is(2, "ensure")
    /\ trace[2].expiry > trace[2].at + Margin

\* C7: with token_expiry > now + 300, ensure_valid_token begins no refresh,
\* raises nothing, and returns with token, expiry and cache file as they were
\* when the call started.
C7_FreshTokenNoNetwork ==
    EnsureFresh =>
        /\ Len(ExchangesVia("ensure")) = 0
        /\ ~ \E i \in Idx : Is(i, "refresh_begin") /\ trace[i].via = "ensure"
        /\ ~ \E i \in Idx : Is(i, "raise") /\ trace[i].err = "TokenUnavailable"
        /\ Len(trace) = 2 =>
              /\ pc = "http1"
              /\ auth_token = trace[1].token
              /\ token_expiry = trace[1].expiry
              /\ cache = trace[1].file

\* C7 witness: ensure_valid_token has just returned for a fresh token
C7_Witness == EnsureFresh /\ Len(trace) = 2 /\ pc = "http1" /\ Truthy(auth_token)

(***************************************************************************)
(* C8  When refresh_access_token fails by a transport error, a non-2xx     *)
(* response or a body without access_token, it returns false and the       *)
(* in-memory access token is the value it held before the call.            *)
(***************************************************************************)
\* the token refresh_access_token was entered with: that of the nearest
\* refresh_begin before event i
TokenBefore(i) ==
    LET b == CHOOSE j \in 1..i :
                 /\ Is(j, "refresh_begin")
                 /\ \A k \in (j+1)..i : ~ Is(k, "refresh_begin")
    IN trace[b].token

\* C8: a refresh that fails by a transport error, a non-2xx status or a body
\* without access_token returns False with the token it was entered with.
\* Violated: a body without access_token has already been assigned to
\* self.auth_token (as None) when the test of the token fails.
C8_FailedRefreshKeepsToken ==
    \A i \in Idx :
        (Is(i, "refresh_end") /\ trace[i].why \in {"transport", "status", "no_access_token"}) =>
            /\ trace[i].ok = FALSE
            /\ trace[i].token = TokenBefore(i)

(***************************************************************************)
(* C9  When the exchange succeeds but the cache file write fails, the      *)
(* refresh still counts as successful: refresh_access_token reports        *)
(* success, the new token and expiry are in effect, and the enclosing      *)
(* make_api_request proceeds.                                              *)
(***************************************************************************)
\* C9: a refresh whose cache write failed returns True and the call site
\* raises nothing.  Violated: the exception of save_token is caught by the
\* except clause of refresh_access_token, which returns False.
C9_WriteFailureNotFatal ==
    \A i \in Idx :
        (Is(i, "refresh_end") /\ trace[i].why = "save") =>
            /\ trace[i].ok = TRUE
            /\ (i < Len(trace) => ~ Is(i + 1, "raise"))

(***************************************************************************)
(* C10  With one process and one caller, whenever refresh_access_token has *)
(* returned true the cache file holds the access_token that is in memory,  *)
(* and the write was complete before the refresh reported success.         *)
(***************************************************************************)
\* the last refresh of the trace has returned true
LastRefreshOk ==
    \E i \in Idx :
        /\ Is(i, "refresh_end") /\ trace[i].ok
        /\ \A k \in (i+1)..Len(trace) : ~ Is(k, "refresh_begin")

\* C10: while the last refresh has returned True the cache file holds the
\* in-memory auth_token, and every refresh that returned True was preceded,
\* after its exchange, by the write of the token it returned.
C10_WriteThrough ==
    /\ LastRefreshOk =>
          /\ cache.kind = "json"
          /\ DictGet(cache.obj, "access_token", None) = auth_token
    /\ \A i \in Idx :
          (Is(i, "refresh_end") /\ trace[i].ok) =>
              \E j \in 1..(i-1) :
                  /\ Is(j, "saved")
                  /\ trace[j].file = JsonFile(TokenData(trace[i].token, trace[j].file.obj["expires_at"]))
                  /\ \A k \in (j+1)..(i-1) : ~ Is(k, "exchange")

\* C10 witness: a refresh replaced the cached token and returned True
C10_Witness ==
    /\ IsCall
    /\ LastRefreshOk
    /\ Truthy(trace[1].token)
    /\ auth_token /= trace[1].token
    /\ trace[1].file.kind = "json"

(***************************************************************************)
(* C11  In every reachable state of a ZohoAuth instance the pair           *)
(* (auth_token, token_expiry) comes from one source: one successful        *)
(* refresh response, or one loaded cache entry.                            *)
(***************************************************************************)
\* token and expiry were set together, by a refresh that returned True or
\* by the adoption of a cache entry
Established(token, expiry) ==
    \E i \in Idx :
        /\ Is(i, "adopted") \/ Is(i, "expiry_set")
        /\ trace[i].token = token
        /\ trace[i].expiry = expiry

\* C11: whenever the object is at rest, its pair (auth_token, token_expiry)
\* was set together during the running call, or is the pair the call was
\* entered with, or is the pair (None, 0) of an object that never had a
\* token.  Violated: a refresh that fails after the assignment of
\* self.auth_token leaves the new token (or None) with the old expiry.
C11_TokenAndExpiryFromOneSource ==
    pc = "idle" =>
        \/ Established(auth_token, token_expiry)
        \/ IsCall /\ auth_token = trace[1].token /\ token_expiry = trace[1].expiry
        \/ ~ IsCall /\ auth_token = None /\ token_expiry = 0

(***************************************************************************)
(* C12  Constructing ZohoAuth over a cache file with an unexpired token    *)
(* adopts that token and its expires_at and exchanges nothing; over a      *)
(* missing, malformed or expired cache it exchanges exactly once.          *)
(***************************************************************************)
Constructed == ~ IsCall /\ pc = "idle"

\* the file holds a token that has not expired at time t
HoldsUnexpiredToken(file, t) ==
    /\ file.kind = "json"
    /\ DOMAIN file.obj = {"access_token", "expires_at"}
    /\ t < file.obj["expires_at"]

\* C12: after construction, if the file read at load time held an unexpired
\* token, that token and its expires_at are in memory and nothing was
\* exchanged; otherwise exactly one exchange was made.
C12_ConstructionLoadsOrRefreshes ==
    Constructed =>
        IF HoldsUnexpiredToken(trace[2].file, trace[2].at)
        THEN /\ auth_token = trace[2].file.obj["access_token"]
             /\ token_expiry = trace[2].file.obj["expires_at"]
             /\ Len(Exchanges) = 0
        ELSE Len(Exchanges) = 1

\* C12 witness: an object constructed from the cache, after the clock moved
C12_Witness ==
    /\ Constructed
    /\ HoldsUnexpiredToken(trace[2].file, trace[2].at)
    /\ trace[2].at > 0
    /\ auth_token = "t0"

\* C12 witness of the other case: an expired cache entry led to one exchange
C12_WitnessExpired ==
    /\ Constructed
    /\ trace[2].file.kind = "json"
    /\ DOMAIN trace[2].file.obj = {"access_token", "expires_at"}
    /\ trace[2].at >= trace[2].file.obj["expires_at"]
    /\ Len(Exchanges) = 1

(***************************************************************************)
(* The credential store on its own: save_token and load_token called in    *)
(* any order on one cache file while the clock advances.                   *)
(***************************************************************************)
StoreFiles == InitialFiles \cup { UnreadableFile }

StoreLifetimes == { Margin, 2 * Margin }

StoreInit ==
    /\ impl = "split"
    /\ now = 0
    /\ cache \in StoreFiles
    /\ auth_token = None
    /\ token_expiry = 0
    /\ headers = EmptyDict
    /\ pc = "store"
    /\ caller = "init"
    /\ data = EmptyDict
    /\ kwargs = EmptyDict
    /\ request_headers = EmptyDict
    /\ calls = 0
    /\ trace = << >>
    /\ zoho = EmptyDict
    /\ frame = EmptyDict

\* save_token(token, expires_in); the write cannot succeed where the path
\* cannot be reached
StoreSave ==
    /\ pc = "store"
    /\ Len(trace) < MaxStoreOps
    /\ \E token \in Tokens, e \in StoreLifetimes, w \in SaveOutcomes :
          /\ cache.kind = "inaccessible" => w = "not_opened"
          /\ cache' = save_token(cache, token, e, now, w)
          /\ Log([ev |-> "save_token", token |-> token, expires_in |-> e, at |-> now,
                  raised |-> (w /= "written")])
    /\ UNCHANGED <<zoho, frame, impl, now, auth_token, token_expiry, headers, pc, caller, data,
                   kwargs, request_headers, calls>>

\* load_token()
StoreLoad ==
    /\ pc = "store"
    /\ Len(trace) < MaxStoreOps
    /\ Log([ev |-> "load_token", file |-> cache, at |-> now, result |-> load_token(cache, now)])
    /\ UNCHANGED <<zoho, frame, impl, now, cache, auth_token, token_expiry, headers, pc, caller, data,
                   kwargs, request_headers, calls>>

StoreNext ==
    \/ StoreSave
    \/ StoreLoad
    \/ Tick

StoreSpec == StoreInit /\ [][StoreNext]_vars

\* trace[j] is a load_token call that follows the completed save_token call
\* trace[i] with no other save_token call in between
LoadAfterSave(i, j) ==
    /\ i < j
    /\ Is(i, "save_token") /\ ~ trace[i].raised
    /\ Is(j, "load_token")
    /\ \A k \in (i + 1)..(j - 1) : ~ Is(k, "save_token")

\* C13: a load_token that follows a completed save_token(token, expires_in)
\* returns that token when the clock is strictly before save time +
\* expires_in, and None when the clock is at or past it.
C13_SaveLoadRoundTrip ==
    \A i \in Idx, j \in Idx :
        LoadAfterSave(i, j) =>
            trace[j].result = IF trace[j].at < trace[i].at + trace[i].expires_in
                              THEN trace[i].token
                              ELSE None

\* C13 witness: after one save_token a load inside the window, later than the
\* save, returned the token, and a load at the very end of the window
\* returned None.
C13_Witness ==
    /\ Len(trace) = 3
    /\ LoadAfterSave(1, 2) /\ LoadAfterSave(1, 3)
    /\ trace[1].at < trace[2].at
    /\ trace[2].result = trace[1].token
    /\ trace[3].at = trace[1].at + trace[1].expires_in
    /\ trace[3].result = None

\* the cache files C14 lists: missing, unreadable, not valid JSON, lacking
\* access_token or expires_at, or expired at time t
Degraded(file, t) ==
    \/ file.kind \in {"missing", "unreadable", "inaccessible", "malformed"}
    \/ /\ file.kind = "json"
       /\ \/ DOMAIN file.obj /= {"access_token", "expires_at"}
          \/ file.obj["expires_at"] <= t

\* C14: load_token never raises; on a cache file that is missing,
\* unreadable, not valid JSON, lacking access_token or expires_at, or
\* expired, it returns None.
C14_LoadNeverRaises ==
    \A j \in Idx :
        Is(j, "load_token") =>
            /\ trace[j].result /= PermissionError
            /\ Degraded(trace[j].file, trace[j].at) => trace[j].result = None

(***************************************************************************)
(* ItemClient: stock reads and stock overrides of one upstream item.       *)
(*                                                                         *)
(* The quantities the upstream reports are decimal numbers, as numbers or  *)
(* as strings; the model counts them in halves, h standing for h / 2.  A   *)
(* make_api_request call is followed as a whole: it returns a response or  *)
(* raises.                                                                 *)
(***************************************************************************)
ItemId == "42"

Locations == { None, "wh-1" }

Targets == { -1, 0, 1 }

\* int(float(x)): the integer part of x, truncated toward zero
IntFloat(h) == IF h >= 0 THEN h \div 2 ELSE -((-h) \div 2)

\* one entry of an item's "warehouses" list
WarehouseEntry(wid, h) ==
    [k \in {"warehouse_id", "warehouse_available_stock"} |->
        IF k = "warehouse_id" THEN wid ELSE h]

\* an item document with a "warehouses" list
ItemWithWarehouses(h, ws) ==
    [k \in {"available_stock", "warehouses"} |-> IF k = "available_stock" THEN h ELSE ws]

\* item documents the upstream may hold at first: without and with a
\* per-warehouse breakdown, whole and fractional, positive and negative
ItemDocs ==
    { EmptyDict }
    \cup { [k \in {"available_stock"} |-> h] : h \in {-1, 2, 3} }
    \cup { ItemWithWarehouses(2, ws) :
             ws \in { << >>,
                      << WarehouseEntry("wh-2", 2) >>,
                      << WarehouseEntry("wh-1", 3), WarehouseEntry("wh-1", 0) >>,
                      << WarehouseEntry("wh-2", 4), WarehouseEntry("wh-1", -1) >>,
                      << [k \in {"warehouse_id"} |-> "wh-1"] >> } }

\* indexes of the entries of ws whose warehouse_id equals location_id
Matching(ws, location_id) ==
    { i \in 1..Len(ws) : DictGet(ws[i], "warehouse_id", None) = location_id }

First(hits) == CHOOSE i \in hits : \A j \in hits : i <= j

Last(hits) == CHOOSE i \in hits : \A j \in hits : j <= i

\* mutant: the last matching entry is taken
get_item_stock_by_id_LastMatch(item, location_id) ==
    IF Truthy(location_id) /\ "warehouses" \in DOMAIN item
    THEN LET hits == Matching(item["warehouses"], location_id)
         IN  IF hits = {} THEN 0
             ELSE IntFloat(DictGet(item["warehouses"][Last(hits)], "warehouse_available_stock", 0))
    ELSE IntFloat(DictGet(item, "available_stock", 0))

\* mutant: a warehouse the breakdown does not list gets the overall stock
get_item_stock_by_id_OverallWhenUnlisted(item, location_id) ==
    IF Truthy(location_id) /\ "warehouses" \in DOMAIN item
          /\ Matching(item["warehouses"], location_id) /= {}
    THEN IntFloat(DictGet(item["warehouses"][First(Matching(item["warehouses"], location_id))],
                          "warehouse_available_stock", 0))
    ELSE IntFloat(DictGet(item, "available_stock", 0))

\* get_item_stock_by_id, from the "item" of the response on
get_item_stock_by_id(item, location_id) ==
    IF Truthy(location_id) /\ "warehouses" \in DOMAIN item
    THEN LET hits == Matching(item["warehouses"], location_id)
         IN  IF hits = {} THEN 0
             ELSE IntFloat(DictGet(item["warehouses"][First(hits)], "warehouse_available_stock", 0))
    ELSE IntFloat(DictGet(item, "available_stock", 0))

\* the line item of adjust_inventory_by_item_id's payload
LineItem(item_id, quantity, location_id) ==
    [k \in {"item_id", "quantity_adjusted"} \cup (IF Truthy(location_id) THEN {"warehouse_id"} ELSE {}) |->
        CASE k = "item_id" -> item_id
          [] k = "quantity_adjusted" -> quantity
          [] OTHER -> location_id]

\* mutant: the warehouse is left out of the payload
AdjustmentPayload_Unscoped(item_id, quantity, location_id) ==
    [adjustment_type |-> "quantity", line_items |-> << LineItem(item_id, quantity, None) >>]

\* payload of adjust_inventory_by_item_id
AdjustmentPayload(item_id, quantity, location_id) ==
    [adjustment_type |-> "quantity", line_items |-> << LineItem(item_id, quantity, location_id) >>]

\* the upstream's item document after it applied one line item: the delta
\* goes to the overall stock and, where the item has a breakdown, to the
\* entry of the named warehouse (listed from then on), or to the first
\* entry when no warehouse is named
Applied(doc, line) ==
    LET d == 2 * line["quantity_adjusted"]
        total == DictGet(doc, "available_stock", 0) + d
    IN  IF "warehouses" \notin DOMAIN doc
        THEN DictUpdate(doc, [k \in {"available_stock"} |-> total])
        ELSE LET ws == doc["warehouses"]
                 named == "warehouse_id" \in DOMAIN line
                 hits == IF named THEN Matching(ws, line["warehouse_id"])
                         ELSE IF ws = << >> THEN {} ELSE {1}
                 ws2 == IF hits /= {}
                        THEN [ws EXCEPT ![First(hits)] =
                                 DictUpdate(@, [k \in {"warehouse_available_stock"} |->
                                     DictGet(@, "warehouse_available_stock", 0) + d])]
                        ELSE IF named THEN Append(ws, WarehouseEntry(line["warehouse_id"], d))
                        ELSE ws
             IN  ItemWithWarehouses(total, ws2)

\* what is kept of the trace when a new call starts: the last call
Invokes(tr) == { i \in 1..Len(tr) : tr[i].ev = "invoke" }

LastOp(tr) == IF Invokes(tr) = {} THEN << >> ELSE SubSeq(tr, Last(Invokes(tr)), Len(tr))

Request(method, endpoint, json, ok) ==
    [ev |-> "request", method |-> method, endpoint |-> endpoint, json |-> json, ok |-> ok]

StockInit ==
    /\ impl = "split"
    /\ now = 0
    /\ cache = MissingFile
    /\ auth_token = None
    /\ token_expiry = 0
    /\ headers = EmptyDict
    /\ pc = "stock_idle"
    /\ caller = "init"
    /\ data = EmptyDict
    /\ kwargs = EmptyDict
    /\ request_headers = EmptyDict
    /\ calls = 0
    /\ trace = << >>
    /\ zoho \in ItemDocs
    /\ frame = EmptyDict

\* a caller starts override_item_stock_by_id(item_id, target_quantity, location_id)
InvokeOverride ==
    /\ pc = "stock_idle"
    /\ calls < MaxStockOps
    /\ \E q \in Targets, l \in Locations :
          /\ frame' = [op |-> "override_item_stock_by_id", target_quantity |-> q,
                       location_id |-> l, current_quantity |-> 0, quantity |-> 0]
          /\ trace' = Append(LastOp(trace),
                             [ev |-> "invoke", op |-> "override_item_stock_by_id",
                              target_quantity |-> q, location_id |-> l])
    /\ calls' = calls + 1
    /\ pc' = "stock_read"
    /\ UNCHANGED <<zoho, impl, now, cache, auth_token, token_expiry, headers, caller, data,
                   kwargs, request_headers>>

\* a caller starts get_item_stock_by_id(item_id, location_id)
InvokeGetStock ==
    /\ pc = "stock_idle"
    /\ calls < MaxStockOps
    /\ \E l \in Locations :
          /\ frame' = [op |-> "get_item_stock_by_id", target_quantity |-> 0,
                       location_id |-> l, current_quantity |-> 0, quantity |-> 0]
          /\ trace' = Append(LastOp(trace),
                             [ev |-> "invoke", op |-> "get_item_stock_by_id",
                              target_quantity |-> 0, location_id |-> l])
    /\ calls' = calls + 1
    /\ pc' = "stock_read"
    /\ UNCHANGED <<zoho, impl, now, cache, auth_token, token_expiry, headers, caller, data,
                   kwargs, request_headers>>

\* get_item_stock_by_id: GET items/{item_id} and the quantity read from the
\* answer; in override_item_stock_by_id then the adjustment and the branch
\* on adjustment == 0
FetchItem ==
    /\ pc = "stock_read"
    /\ \E ok \in BOOLEAN :
          LET get == Request("GET", <<"items", ItemId>>, EmptyDict, ok)
              current_quantity == get_item_stock_by_id(zoho, frame.location_id)
              read == [ev |-> "read", item |-> zoho, location_id |-> frame.location_id,
                       current_quantity |-> current_quantity]
              adjustment == frame.target_quantity - current_quantity
          IN  IF ~ ok
              THEN /\ pc' = "stock_idle"
                   /\ frame' = frame
                   /\ trace' = trace \o << get, Ev("error") >>
              ELSE IF frame.op = "get_item_stock_by_id"
              THEN /\ pc' = "stock_idle"
                   /\ frame' = [frame EXCEPT !.current_quantity = current_quantity]
                   /\ trace' = trace \o << get, read, [ev |-> "result", quantity |-> current_quantity] >>
              ELSE /\ frame' = [frame EXCEPT !.current_quantity = current_quantity,
                                               !.quantity = adjustment]
                   /\ IF adjustment /= 0
                      THEN /\ pc' = "stock_post"
                           /\ trace' = trace \o << get, read >>
                      ELSE IF Truthy(frame.location_id)
                      THEN /\ pc' = "stock_details"
                           /\ trace' = trace \o << get, read >>
                      ELSE /\ pc' = "stock_idle"
                           /\ trace' = trace \o << get, read,
                                  [ev |-> "result", warning |-> TRUE,
                                   current_quantity |-> current_quantity] >>
    /\ UNCHANGED <<zoho, impl, now, cache, auth_token, token_expiry, headers, caller, data,
                   kwargs, request_headers, calls>>

\* override_item_stock_by_id on a zero adjustment with a location_id: the
\* item is fetched once more for the log, then the warning is returned
FetchDetails ==
    /\ pc = "stock_details"
    /\ \E ok \in BOOLEAN :
          LET get == Request("GET", <<"items", ItemId>>, EmptyDict, ok)
          IN  trace' = trace \o << get,
                  IF ok THEN [ev |-> "result", warning |-> TRUE,
                              current_quantity |-> frame.current_quantity]
                  ELSE Ev("error") >>
    /\ pc' = "stock_idle"
    /\ UNCHANGED <<zoho, frame, impl, now, cache, auth_token, token_expiry, headers, caller,
                   data, kwargs, request_headers, calls>>

\* a caller starts adjust_inventory_by_item_id(item_id, quantity, reason, location_id)
InvokeAdjust ==
    /\ pc = "stock_idle"
    /\ calls < MaxStockOps
    /\ \E q \in Targets, l \in Locations :
          /\ frame' = [op |-> "adjust_inventory_by_item_id", target_quantity |-> 0,
                       location_id |-> l, current_quantity |-> 0, quantity |-> q]
          /\ trace' = Append(LastOp(trace),
                             [ev |-> "invoke", op |-> "adjust_inventory_by_item_id",
                              target_quantity |-> 0, location_id |-> l])
    /\ calls' = calls + 1
    /\ pc' = "stock_post"
    /\ UNCHANGED <<zoho, impl, now, cache, auth_token, token_expiry, headers, caller, data,
                   kwargs, request_headers>>

\* the status the upstream answers a zero-quantity adjustment with
ZeroQuantityStatus == 400

\* adjust_inventory_by_item_id(item_id, quantity, reason, location_id): the
\* POST; the upstream applies an adjustment it accepts, and it accepts no
\* adjustment of quantity 0; raise_for_status lets the HTTPStatusError of a
\* 400 through make_api_request and nothing here catches it
adjust_inventory_by_item_id ==
    /\ pc = "stock_post"
    /\ \E ok \in BOOLEAN :
          LET payload == AdjustmentPayload(ItemId, frame.quantity, frame.location_id)
              post == Request("POST", <<"inventoryadjustments">>, payload, ok)
          IN  /\ frame.quantity = 0 => ~ ok
              /\ IF ok
                 THEN /\ zoho' = Applied(zoho, payload.line_items[1])
                      /\ trace' = trace \o << post, [ev |-> "result", inventoryadjustment |-> payload] >>
                 ELSE /\ zoho' = zoho
                      /\ trace' = trace \o << post,
                             IF frame.quantity = 0
                             THEN [ev |-> "error", err |-> "HTTPStatusError",
                                   status_code |-> ZeroQuantityStatus]
                             ELSE Ev("error") >>
    /\ pc' = "stock_idle"
    /\ UNCHANGED <<frame, impl, now, cache, auth_token, token_expiry, headers, caller, data,
                   kwargs, request_headers, calls>>

StockNext ==
    \/ InvokeOverride
    \/ InvokeGetStock
    \/ InvokeAdjust
    \/ FetchItem
    \/ FetchDetails
    \/ adjust_inventory_by_item_id

StockSpec == StockInit /\ [][StockNext]_vars

(***************************************************************************)
(* Reading the trace of an ItemClient call.                                *)
(***************************************************************************)
StockOp == LastOp(trace)

IsOverride == StockOp /= << >> /\ StockOp[1].op = "override_item_stock_by_id"

StockEnded == pc = "stock_idle" /\ StockOp /= << >>

Posts(tr) == SelectSeq(tr, LAMBDA e : e.ev = "request" /\ e.method = "POST")

Reads(tr) == SelectSeq(tr, LAMBDA e : e.ev = "read")

\* the running override has read a quantity equal to / different from its target
ReadEqualsTarget ==
    /\ IsOverride
    /\ Reads(StockOp) /= << >>
    /\ Reads(StockOp)[1].current_quantity = StockOp[1].target_quantity

ReadDiffersFromTarget ==
    /\ IsOverride
    /\ Reads(StockOp) /= << >>
    /\ Reads(StockOp)[1].current_quantity /= StockOp[1].target_quantity

IsNoOpResult(e, q) ==
    /\ e.ev = "result"
    /\ "warning" \in DOMAIN e
    /\ e.current_quantity = q

\* C15: an override that read a quantity equal to its target sends no POST
\* to inventoryadjustments and ends by returning the no-op result with the
\* warning and current_quantity, with or without a location_id.
C15_ZeroDeltaIsNoOp ==
    ReadEqualsTarget =>
        /\ Posts(StockOp) = << >>
        /\ StockEnded => IsNoOpResult(StockOp[Len(StockOp)], StockOp[1].target_quantity)

PrevOp == SubSeq(trace, 1, Len(trace) - Len(StockOp))

\* the running override repeats the override before it, which succeeded
RepeatedOverride ==
    /\ IsOverride
    /\ PrevOp /= << >>
    /\ PrevOp[1].op = "override_item_stock_by_id"
    /\ PrevOp[1].target_quantity = StockOp[1].target_quantity
    /\ PrevOp[1].location_id = StockOp[1].location_id
    /\ PrevOp[Len(PrevOp)].ev = "result"

\* C17: an override that repeats the successful override before it, the
\* upstream having applied that one's adjustment and nothing else, reads the
\* target and sends no POST.
C17_SecondOverrideIsNoOp ==
    RepeatedOverride =>
        /\ Posts(StockOp) = << >>
        /\ Reads(StockOp) /= << >> =>
              Reads(StockOp)[1].current_quantity = StockOp[1].target_quantity

\* the breakdown of the item read by e lists no entry for e's location_id
Unlisted(e) ==
    /\ e.location_id /= None
    /\ "warehouses" \in DOMAIN e.item
    /\ Matching(e.item["warehouses"], e.location_id) = {}

NoBreakdown(e) ==
    /\ e.location_id /= None
    /\ "warehouses" \notin DOMAIN e.item

\* c is the integer part of h halves
IsIntegerPart(c, h) ==
    IF h >= 0 THEN 2 * c <= h /\ h < 2 * c + 2
    ELSE h <= 2 * c /\ 2 * c - 2 < h

\* C18 as claimed: with a location_id, get_item_stock_by_id returns 0
\* whenever the breakdown has no entry for it, an item without any
\* breakdown included.
C18_AsClaimed ==
    \A i \in Idx :
        (Is(i, "read") /\ (Unlisted(trace[i]) \/ NoBreakdown(trace[i]))) =>
            trace[i].current_quantity = 0

\* C18 amended: with a location_id, get_item_stock_by_id returns 0 when the
\* item carries a breakdown (empty or not) without an entry for it, whatever
\* the overall available stock; when the item carries no breakdown at all it
\* returns the integer part of the overall available stock (0 if absent).
C18_UnlistedWarehouseReadsZero ==
    \A i \in Idx :
        Is(i, "read") =>
            /\ Unlisted(trace[i]) => trace[i].current_quantity = 0
            /\ NoBreakdown(trace[i]) =>
                  IsIntegerPart(trace[i].current_quantity,
                                DictGet(trace[i].item, "available_stock", 0))

\* C18 witness: a read with a location_id of an item whose breakdown lists
\* another warehouse only and whose overall stock is not 0 returned 0.
C18_Witness ==
    \E i \in Idx :
        /\ Is(i, "read")
        /\ Unlisted(trace[i])
        /\ trace[i].item["warehouses"] /= << >>
        /\ IntFloat(trace[i].item["available_stock"]) /= 0
        /\ trace[i].current_quantity = 0

\* C19: without a location_id get_item_stock_by_id returns the integer part
\* of the item's overall available stock; with a location_id the breakdown
\* lists, the integer part of the available stock of the first entry with
\* that warehouse_id.
C19_ReadsOverallOrFirstMatch ==
    \A i \in Idx :
        Is(i, "read") =>
            LET e == trace[i]
            IN  /\ (e.location_id = None /\ "available_stock" \in DOMAIN e.item) =>
                      IsIntegerPart(e.current_quantity, e.item["available_stock"])
                /\ (e.location_id /= None /\ "warehouses" \in DOMAIN e.item
                      /\ Matching(e.item["warehouses"], e.location_id) /= {}) =>
                      LET w == e.item["warehouses"][First(Matching(e.item["warehouses"], e.location_id))]
                      IN  "warehouse_available_stock" \in DOMAIN w =>
                              IsIntegerPart(e.current_quantity, w["warehouse_available_stock"])

\* C19 witness: a read with a location_id the breakdown lists twice, after
\* another warehouse, returned the integer part of the first of the two, a
\* fractional stock that differs from the second one's.
C19_Witness ==
    \E i \in Idx :
        /\ Is(i, "read")
        /\ trace[i].location_id /= None
        /\ "warehouses" \in DOMAIN trace[i].item
        /\ LET ws == trace[i].item["warehouses"]
               hits == Matching(ws, trace[i].location_id)
           IN  /\ Cardinality(hits) = 2
               /\ ws[First(hits)]["warehouse_available_stock"] % 2 = 1
               /\ IntFloat(ws[Last(hits)]["warehouse_available_stock"]) /= trace[i].current_quantity
               /\ 2 * trace[i].current_quantity < ws[First(hits)]["warehouse_available_stock"]

(***************************************************************************)
(* ItemClient: the resolvers get_item_by_name and get_item_by_sku.         *)
(***************************************************************************)
MaxListed == 2

ListedItem(id, name, sku) ==
    [k \in {"item_id", "name", "sku"} |->
        CASE k = "item_id" -> id [] k = "name" -> name [] OTHER -> sku]

\* items the upstream may list: two that share name and sku, one that
\* differs from them in case only, one without name and sku
ListedItems ==
    { ListedItem("1", "Widget", "W-1"), ListedItem("2", "widget", "w-1"),
      ListedItem("3", "Widget", "W-1"), [k \in {"item_id"} |-> "4"] }

Listings == UNION { [1..n -> ListedItems] : n \in 0..MaxListed }

\* bodies of the answer to GET items: with an "items" list or without
ItemsBodies == { EmptyDict } \cup { [k \in {"items"} |-> l] : l \in Listings }

Keys == { "Widget", "W-1", "ZZZ" }

\* mutant: the upstream's filter is trusted, the first listed item is returned
get_item_by_FirstListed(field, body, key) ==
    LET items == DictGet(body, "items", << >>)
    IN  IF items = << >> THEN EmptyDict ELSE items[1]

\* the scan shared by get_item_by_name (field "name") and get_item_by_sku
\* (field "sku"), from the body of the response on
get_item_by(field, body, key) ==
    LET items == DictGet(body, "items", << >>)
        hits == { i \in 1..Len(items) : DictGet(items[i], field, None) = key }
    IN  IF hits = {} THEN EmptyDict ELSE items[First(hits)]

get_item_by_name(body, name) == get_item_by("name", body, name)

get_item_by_sku(body, sku) == get_item_by("sku", body, sku)

\* warehouses the upstream may list: one named Main, one whose name differs
\* from it in case only, one without a warehouse_name
ListedWarehouses ==
    { [k \in {"warehouse_id", "warehouse_name"} |-> IF k = "warehouse_id" THEN "wh-1" ELSE "Main"],
      [k \in {"warehouse_id", "warehouse_name"} |-> IF k = "warehouse_id" THEN "wh-2" ELSE "main"],
      [k \in {"warehouse_id"} |-> "wh-3"] }

\* bodies of the answer to GET warehouses: with a "warehouses" list or without
WarehousesBodies ==
    { EmptyDict }
    \cup { [k \in {"warehouses"} |-> l] :
             l \in UNION { [1..n -> ListedWarehouses] : n \in 0..MaxListed } }

\* the default the scan reads for a warehouse without a warehouse_name
Unnamed == "(unnamed)"

WarehouseNames == { "Main", Unnamed, "ZZZ" }

\* get_warehouse_by_name, from the body of the listing on: list() hands over
\* data.get("warehouses", []), the scan compares
\* warehouse.get("warehouse_name", "(unnamed)") with the name
get_warehouse_by_name(body, name) ==
    LET warehouses == DictGet(body, "warehouses", << >>)
        hits == { i \in 1..Len(warehouses) :
                     DictGet(warehouses[i], "warehouse_name", Unnamed) = name }
    IN  IF hits = {} THEN EmptyDict ELSE warehouses[First(hits)]

ResolveInit ==
    /\ impl = "split"
    /\ now = 0
    /\ cache = MissingFile
    /\ auth_token = None
    /\ token_expiry = 0
    /\ headers = EmptyDict
    /\ pc = "resolve_idle"
    /\ caller = "init"
    /\ data = EmptyDict
    /\ kwargs = EmptyDict
    /\ request_headers = EmptyDict
    /\ calls = 0
    /\ trace = << >>
    /\ zoho = EmptyDict
    /\ frame = EmptyDict

\* what a resolver call leaves in the trace: its request, then its result or
\* the error of the request
Resolved(field, key, body, ok, result) ==
    << [ev |-> "invoke", op |-> field, key |-> key],
       Request("GET", << "items" >>, [k \in {field} |-> key], ok),
       IF ok THEN [ev |-> "resolved", field |-> field, key |-> key, body |-> body,
                   result |-> result]
       ELSE Ev("error") >>

\* get_item_by_name(name)
GetItemByName ==
    /\ pc = "resolve_idle"
    /\ \E name \in Keys, body \in ItemsBodies, ok \in BOOLEAN :
          trace' = Resolved("name", name, body, ok, get_item_by_name(body, name))
    /\ UNCHANGED <<zoho, frame, impl, now, cache, auth_token, token_expiry, headers, pc, caller,
                   data, kwargs, request_headers, calls>>

\* get_item_by_sku(sku)
GetItemBySku ==
    /\ pc = "resolve_idle"
    /\ \E sku \in Keys, body \in ItemsBodies, ok \in BOOLEAN :
          trace' = Resolved("sku", sku, body, ok, get_item_by_sku(body, sku))
    /\ UNCHANGED <<zoho, frame, impl, now, cache, auth_token, token_expiry, headers, pc, caller,
                   data, kwargs, request_headers, calls>>

\* get_warehouse_by_name(name)
GetWarehouseByName ==
    /\ pc = "resolve_idle"
    /\ \E name \in WarehouseNames, body \in WarehousesBodies, ok \in BOOLEAN :
          trace' = << [ev |-> "invoke", op |-> "get_warehouse_by_name", key |-> name],
                      Request("GET", << "warehouses" >>, EmptyDict, ok),
                      IF ok THEN [ev |-> "resolved_warehouse", key |-> name, body |-> body,
                                  result |-> get_warehouse_by_name(body, name)]
                      ELSE Ev("error") >>
    /\ UNCHANGED <<zoho, frame, impl, now, cache, auth_token, token_expiry, headers, pc, caller,
                   data, kwargs, request_headers, calls>>

ResolveNext ==
    \/ GetItemByName
    \/ GetItemBySku
    \/ GetWarehouseByName

ResolveSpec == ResolveInit /\ [][ResolveNext]_vars

\* the items of the listing a resolver call received
Listed(e) == DictGet(e.body, "items", << >>)

\* item i of the listing carries the key in the field searched
MatchesAt(e, i) == e.field \in DOMAIN Listed(e)[i] /\ Listed(e)[i][e.field] = e.key

\* C20: get_item_by_name / get_item_by_sku returns the first listed item
\* whose name / sku equals the key exactly, the empty dict when no listed
\* item does, and never an item whose field differs from the key.
C20_FirstExactMatchOrEmpty ==
    \A n \in Idx :
        Is(n, "resolved") =>
            LET e == trace[n]
                hits == { i \in 1..Len(Listed(e)) : MatchesAt(e, i) }
            IN  /\ hits = {} => e.result = EmptyDict
                /\ hits /= {} =>
                      \E i \in hits : /\ e.result = Listed(e)[i]
                                      /\ \A j \in hits : i <= j
                /\ e.result /= EmptyDict =>
                      e.field \in DOMAIN e.result /\ e.result[e.field] = e.key

\* C20 witness: a listing whose first item differs from the key in case only
\* and whose second item carries the key; the second item was returned.
C20_Witness ==
    \E n \in Idx :
        /\ Is(n, "resolved")
        /\ Len(Listed(trace[n])) = 2
        /\ ~ MatchesAt(trace[n], 1)
        /\ trace[n].field \in DOMAIN Listed(trace[n])[1]
        /\ MatchesAt(trace[n], 2)
        /\ trace[n].result = Listed(trace[n])[2]

\* C21: get_warehouse_by_name returns a warehouse only if that warehouse
\* carries a warehouse_name field equal to the requested name, and the empty
\* dict otherwise.
C21_WarehouseExactMatchOrEmpty ==
    \A n \in Idx :
        Is(n, "resolved_warehouse") =>
            \/ trace[n].result = EmptyDict
            \/ /\ "warehouse_name" \in DOMAIN trace[n].result
               /\ trace[n].result["warehouse_name"] = trace[n].key
               /\ \E i \in 1..Len(DictGet(trace[n].body, "warehouses", << >>)) :
                     trace[n].body["warehouses"][i] = trace[n].result

\* the running call sent an adjustment the upstream rejected as a
\* zero-quantity adjustment
ZeroQuantityRejected ==
    /\ Posts(StockOp) /= << >>
    /\ ~ Posts(StockOp)[1].ok
    /\ Posts(StockOp)[1].json.line_items[1]["quantity_adjusted"] = 0

\* C22: a stock adjustment / override call whose adjustment the upstream
\* rejected as a zero-quantity adjustment ends by returning the no-op result
\* with the warning, not by raising.
C22_ZeroQuantityRejectionIsNoOp ==
    (ZeroQuantityRejected /\ StockEnded) =>
        /\ StockOp[Len(StockOp)].ev = "result"
        /\ "warning" \in DOMAIN StockOp[Len(StockOp)]

\* C30: once an override has read a quantity equal to its target it sends no
\* further request, so every request of the call lies before that read.
C30_NoRequestAfterZeroDelta ==
    ReadEqualsTarget =>
        \A i \in 1..Len(StockOp), j \in 1..Len(StockOp) :
            (StockOp[i].ev = "read" /\ StockOp[j].ev = "request") => j < i
(***************************************************************************)
(* C24  On every HTTP call of make_api_request, first attempt and retry    *)
(* alike, a caller-supplied header is present with the caller's value.     *)
(***************************************************************************)
\* the headers the caller passed to the call the trace describes
CallerHeaders ==
    IF "headers" \in DOMAIN trace[1].kwargs THEN trace[1].kwargs["headers"] ELSE EmptyDict

\* the HTTP call went out with every caller-supplied header, at the caller's value
CarriesCallerHeaders(h) ==
    \A k \in DOMAIN CallerHeaders :
        k \in DOMAIN h.headers /\ h.headers[k] = CallerHeaders[k]

\* C24: every HTTP call of a make_api_request carries each header its caller
\* supplied, with the caller's value, on the first attempt and on the retry.
C24_CallerHeadersOnEveryAttempt ==
    IsCall => \A i \in 1..Len(Https) : CarriesCallerHeaders(Https[i])

(***************************************************************************)
(* C29  No HTTP request is sent with an Authorization header built from an *)
(* absent token.                                                           *)
(***************************************************************************)
\* make_api_request is about to issue an HTTP call, first attempt or retry
IssuesHttp == pc \in {"http1", "http2"}

\* C29: whenever make_api_request issues an HTTP call the in-memory access
\* token is a token (never None), and the authentication headers the call
\* starts from are not built from None.
C29_NoHttpWithAbsentToken ==
    IssuesHttp =>
        /\ Truthy(auth_token)
        /\ BaseHeaders(impl, auth_token, headers)["Authorization"] /= <<"Zoho-oauthtoken", Str(None)>>

(***************************************************************************)
(* The constructor's arguments and environment (ZohoAuth.__init__,         *)
(* ZohoClient.__init__, ZohoInventoryClient.__init__).  frame holds the    *)
(* arguments passed and os.environ; the steps after the credential tests   *)
(* are the constructor steps of Spec.                                      *)
(***************************************************************************)
\* the three credentials: argument name and environment variable
Credentials == {"refresh_token", "client_id", "client_secret"}

EnvName(c) ==
    CASE c = "refresh_token" -> "ZOHO_REFRESH_TOKEN"
      [] c = "client_id" -> "ZOHO_CLIENT_ID"
      [] OTHER -> "ZOHO_CLIENT_SECRET"

OrganizationEnv == "ZOHO_ORGANIZATION_ID"

EnvNames == { EnvName(c) : c \in Credentials } \cup { OrganizationEnv }

\* arguments of the constructor: each one omitted (None) or passed
ConstructorArgs == [Credentials -> {None, "arg"}]

\* os.environ: each variable unset, set to the empty string, or set
Environs == UNION { [S -> {"", "env"}] : S \in SUBSET EnvNames }

\* mutant: the environment is not consulted
Configured_ArgumentOnly(arg, environ, name) == arg

\* arg or os.environ.get(name)
Configured(arg, environ, name) ==
    IF Truthy(arg) THEN arg ELSE DictGet(environ, name, None)

\* the credentials the constructor ends up with
ConfiguredCredentials(f) ==
    [c \in Credentials |-> Configured(f.args[c], f.environ, EnvName(c))]

\* the organization id, read from the environment only
organization_id(f) == DictGet(f.environ, OrganizationEnv, None)

ConstructInit ==
    /\ impl \in {"split", "mono"}
    /\ now = 0
    /\ cache \in InitialFiles
    /\ auth_token = None
    /\ token_expiry = 0
    /\ headers = EmptyDict
    /\ pc = "init_args"
    /\ caller = "init"
    /\ data = EmptyDict
    /\ kwargs = EmptyDict
    /\ request_headers = EmptyDict
    /\ calls = 0
    /\ trace = << Ev("__init__") >>
    /\ zoho = EmptyDict
    /\ frame \in [args : ConstructorArgs, environ : Environs]

\* the three 'if not self.x: raise ValueError' tests; the monolithic client
\* warns about a missing organization id right after them
CheckCredentials ==
    /\ pc = "init_args"
    /\ IF \E c \in Credentials : ~ Truthy(ConfiguredCredentials(frame)[c])
       THEN /\ pc' = "init_raised"
            /\ Log(Raise("ValueError"))
       ELSE /\ pc' = "init_load"
            /\ IF impl = "mono" /\ ~ Truthy(organization_id(frame))
               THEN Log([ev |-> "warning", about |-> OrganizationEnv])
               ELSE trace' = trace
    /\ UNCHANGED <<zoho, frame, impl, now, cache, auth_token, token_expiry, headers, caller, data,
                   kwargs, request_headers, calls>>

\* ZohoClient.__init__ after self.auth = ZohoAuth(...): the organization id
\* is read and its absence logged
ZohoClientInit ==
    /\ pc = "idle"
    /\ impl = "split"
    /\ pc' = "ready"
    /\ IF ~ Truthy(organization_id(frame))
       THEN Log2([ev |-> "warning", about |-> OrganizationEnv], Ev("client_constructed"))
       ELSE Log(Ev("client_constructed"))
    /\ UNCHANGED <<zoho, frame, impl, now, cache, auth_token, token_expiry, headers, caller, data,
                   kwargs, request_headers, calls>>

ConstructNext ==
    \/ CheckCredentials
    \/ InitLoad
    \/ InitExpiry
    \/ InitHeaders
    \/ RefreshPost
    \/ RefreshSave
    \/ RefreshExpiry
    \/ ZohoClientInit
    \/ Tick

ConstructSpec == ConstructInit /\ [][ConstructNext]_vars

(***************************************************************************)
(* C28  Construction with a refresh token, client id or client secret      *)
(* missing fails with a configuration error before the token cache is read *)
(* and before any refresh exchange; a missing organization id does not     *)
(* make construction fail.                                                 *)
(***************************************************************************)
\* credential c was neither passed nor set in the environment
Neither(c) ==
    /\ ~ Truthy(frame.args[c])
    /\ ~ Truthy(DictGet(frame.environ, EnvName(c), None))

\* the credential tests have run
Checked == pc /= "init_args"

\* the constructor raised the configuration error
ConfigurationError == \E i \in Idx : trace[i] = Raise("ValueError")

\* C28: once the credential tests have run, a missing credential has ended
\* the constructor with the configuration error as its only event (no read
\* of the token cache, no exchange), and with the three credentials
\* available no configuration error is ever raised, organization id or not.
C28_MissingCredentialFailsFirst ==
    Checked =>
        IF \E c \in Credentials : Neither(c)
        THEN /\ pc = "init_raised"
             /\ trace = << Ev("__init__"), Raise("ValueError") >>
             /\ auth_token = None
        ELSE ~ ConfigurationError

\* C28 witness: the client id is missing while a usable token is cached, and
\* the constructor has raised
C28_Witness ==
    /\ Neither("client_id") /\ ~ Neither("refresh_token") /\ ~ Neither("client_secret")
    /\ cache = JsonFile(TokenData("t0", 3 * Margin))
    /\ pc = "init_raised"
    /\ ConfigurationError

(***************************************************************************)
(* The protocol server (server.py) over the monolithic client, and the     *)
(* synchronization script's tool call (syncing.py).  The client's          *)
(* operations are abstracted to what they return or raise; an exception    *)
(* message is the sequence of its phrases, and 'phrase in str(e)' is       *)
(* membership in that sequence.  frame holds the module-level zoho_client  *)
(* and whether the environment carries the credentials; trace holds the    *)
(* last operation served.                                                  *)
(***************************************************************************)
Returns(v) == [kind |-> "return", value |-> v]

Raises(type, message) == [kind |-> "raise", type |-> type, message |-> message]

Contains(message, phrase) == \E i \in 1..Len(message) : message[i] = phrase

\* ValueError of _make_api_request when _ensure_valid_token returned False
TokenUnavailableError ==
    Raises("ValueError", << "Failed to obtain a valid access token" >>)

\* ValueError of _make_api_request for a 401 left after the retry
AuthenticationFailedError ==
    Raises("ValueError",
           << "Authentication failed", ": Invalid credentials or insufficient permissions" >>)

\* what a client operation raises out of _make_api_request
ClientErrors ==
    { TokenUnavailableError, AuthenticationFailedError,
      Raises("HTTPStatusError", << "Server error '500 Internal Server Error'" >>) }

ItemNames == {"Widget", "Gizmo"}

SkuCodes == {"W-1", "G-1"}

NewQuantities == {0, 7}

\* an item as the upstream lists it
StockedItem(name, sku) ==
    [item_id |-> ItemId, name |-> name, sku |-> sku, stock_on_hand |-> 5]

\* outcomes of client.get_item_by_name(name) / client.get_item_by_sku(sku)
ItemLookups(name, sku) ==
    { Returns(StockedItem(name, sku)), Returns(EmptyDict) } \cup ClientErrors

\* outcomes of client.get_all_items()
AllItemsOutcomes ==
    { Returns(<< StockedItem("Widget", "W-1") >>), Returns(<< >>) } \cup ClientErrors

\* outcomes of client.update_item_stock(name, stock_on_hand)
StockUpdates(name, stock_on_hand) ==
    { Returns([item_id |-> ItemId, name |-> name, sku |-> "W-1", stock_on_hand |-> stock_on_hand]),
      Raises("ValueError", << "Item not found: ", name >>) } \cup ClientErrors

NotInitialized ==
    << "Zoho Inventory client not initialized. Check environment variables." >>

\* the inventory get_all_stock answers with after an authentication failure
DemoItems ==
    << [item_id |-> "demo-item-1", name |-> "Demo Product 1", sku |-> "DP-001", stock_on_hand |-> 42],
       [item_id |-> "demo-item-2", name |-> "Demo Product 2", sku |-> "DP-002", stock_on_hand |-> 100] >>

\* get_client(): the module-level client, constructed on first use; the
\* constructor's ValueError (credentials missing) leaves it None
get_client(f) ==
    IF f.zoho_client = None
    THEN IF f.configured THEN "ZohoInventoryClient" ELSE None
    ELSE f.zoho_client

\* get_stock_by_name / get_stock_by_sku: the returned JSON
get_stock_by(client, what, key, o) ==
    IF client = None THEN [error |-> NotInitialized]
    ELSE IF o.kind = "raise" THEN [error |-> o.message]
    ELSE IF o.value = EmptyDict
    THEN [error |-> << what, key >>,
          suggestion |-> "use the 'file://all/' resource to see all available items"]
    ELSE o.value

get_stock_by_name(client, item_name, o) ==
    get_stock_by(client, "Item not found: ", item_name, o)

get_stock_by_sku(client, sku_code, o) ==
    get_stock_by(client, "Item not found with SKU: ", sku_code, o)

\* get_all_stock: the returned JSON (the list of items is shown under items)
get_all_stock(client, o) ==
    IF client = None THEN [error |-> NotInitialized]
    ELSE IF o.kind = "raise"
    THEN IF o.type = "ValueError" /\ Contains(o.message, "Authentication failed")
         THEN [items |-> DemoItems]
         ELSE [error |-> o.message]
    ELSE [items |-> o.value]

\* update_stock: the returned JSON
update_stock(client, item_name, quantity, o) ==
    IF client = None THEN [error |-> NotInitialized]
    ELSE IF o.kind = "raise" THEN [success |-> FALSE, error |-> o.message]
    ELSE [success |-> TRUE, message |-> << "Updated stock for ", item_name >>, item |-> o.value]

\* arguments a tool call may carry
ToolNames == {"update_stock", "update_stock_by_sku"}

UpdateStockArguments ==
    { EmptyDict, [item_name |-> "Widget"], [quantity |-> 7],
      [item_name |-> "Widget", quantity |-> 7], [item_name |-> "Gizmo", quantity |-> 0] }

\* call_tool: the string it returns or the ValueError it raises
call_tool(name, arguments, client, o) ==
    IF name /= "update_stock" THEN Raises("ValueError", << "Unknown tool: ", name >>)
    ELSE IF "item_name" \notin DOMAIN arguments
    THEN Raises("ValueError", << "Missing required argument 'item_name'" >>)
    ELSE IF "quantity" \notin DOMAIN arguments
    THEN Raises("ValueError", << "Missing required argument 'quantity'" >>)
    ELSE Returns(update_stock(client, arguments["item_name"], arguments["quantity"], o))

\* how a handler's exception reaches the caller of session.call_tool: as an
\* exception, as a response without contents, or as a response whose text
\* is the message (not JSON)
ToolFailures == {"raised", "no_contents", "message_text"}

\* mutant: the exception of the tool call is not caught
call_update_stock_tool_Uncaught(t, failure) ==
    IF t.kind = "return" THEN t.value ELSE t

\* call_update_stock_tool: the dictionary it returns, given what the
\* server's call_tool did with the name update_stock_by_sku
call_update_stock_tool(t, failure) ==
    IF t.kind = "return" THEN t.value
    ELSE IF failure = "no_contents" THEN [error |-> << "No response from tool call" >>]
    ELSE IF failure = "message_text"
    THEN [error |-> << "Failed to call update_stock_by_sku tool: ", "Expecting value" >>]
    ELSE [error |-> << "Failed to call update_stock_by_sku tool: " >> \o t.message]

WarehouseChoices == {None, "Main"}

ServerInit ==
    /\ impl = "mono"
    /\ now = 0
    /\ cache = MissingFile
    /\ auth_token = None
    /\ token_expiry = 0
    /\ headers = EmptyDict
    /\ pc = "serving"
    /\ caller = "init"
    /\ data = EmptyDict
    /\ kwargs = EmptyDict
    /\ request_headers = EmptyDict
    /\ calls = 0
    /\ trace = << Ev("create_server") >>
    /\ zoho = EmptyDict
    /\ frame \in [zoho_client : {None}, configured : BOOLEAN]

\* one operation served: the client operations it called, what the last of
\* them did (or the exception raised before any), and the result handed to
\* the caller
Served(op, args, client, client_calls, o, result) ==
    /\ pc = "serving"
    /\ frame' = [frame EXCEPT !.zoho_client = client]
    /\ trace' = << [ev |-> "served", op |-> op, args |-> args,
                    client_calls |-> client_calls, outcome |-> o, result |-> result] >>
    /\ UNCHANGED <<zoho, impl, now, cache, auth_token, token_expiry, headers, pc, caller, data,
                   kwargs, request_headers, calls>>

\* a server operation that gets the client and, if there is one, calls
\* client_call on it with outcome o
ServedByClient(op, args, client, client_call, o, result) ==
    IF client = None
    THEN Served(op, args, client, << >>, [kind |-> "none"], result)
    ELSE Served(op, args, client, << client_call >>, o, result)

GetStockByName ==
    \E item_name \in ItemNames : \E o \in ItemLookups(item_name, "W-1") :
        LET client == get_client(frame) IN
        ServedByClient("get_stock_by_name", << item_name >>, client, "get_item_by_name", o,
                       get_stock_by_name(client, item_name, o))

GetStockBySku ==
    \E sku_code \in SkuCodes : \E o \in ItemLookups("Widget", sku_code) :
        LET client == get_client(frame) IN
        ServedByClient("get_stock_by_sku", << sku_code >>, client, "get_item_by_sku", o,
                       get_stock_by_sku(client, sku_code, o))

GetAllStock ==
    \E o \in AllItemsOutcomes :
        LET client == get_client(frame) IN
        ServedByClient("get_all_stock", << >>, client, "get_all_items", o,
                       get_all_stock(client, o))

UpdateStock ==
    \E item_name \in ItemNames, quantity \in NewQuantities :
        \E o \in StockUpdates(item_name, quantity) :
            LET client == get_client(frame) IN
            ServedByClient("update_stock", << item_name, quantity >>, client, "update_item_stock", o,
                           update_stock(client, item_name, quantity, o))

\* what the server does with a tool call whose handler did t: update_stock
\* ran, or call_tool raised before the client was looked up
ServeTool(op, args, t, o, result) ==
    IF t.kind = "return"
    THEN ServedByClient(op, args, get_client(frame), "update_item_stock", o, result)
    ELSE Served(op, args, frame.zoho_client, << >>, t, result)

\* what the caller of a tool gets
ToolResult(t) == IF t.kind = "return" THEN t.value ELSE [raised |-> t.message]

\* a tool call arriving at the server
CallTool ==
    \E name \in ToolNames, arguments \in UpdateStockArguments :
        \E o \in StockUpdates("Widget", 7) :
            LET t == call_tool(name, arguments, get_client(frame), o) IN
            ServeTool("call_tool", << name, arguments >>, t, o, ToolResult(t))

\* the synchronization script asks for a stock update by SKU
CallUpdateStockTool ==
    \E sku \in SkuCodes, quantity \in NewQuantities, warehouse_name \in WarehouseChoices :
        \E failure \in ToolFailures : \E o \in StockUpdates("Widget", quantity) :
            LET params == IF Truthy(warehouse_name)
                          THEN [sku |-> sku, quantity |-> quantity,
                                reason |-> "Stock update via API", warehouse_name |-> warehouse_name]
                          ELSE [sku |-> sku, quantity |-> quantity, reason |-> "Stock update via API"]
                t == call_tool("update_stock_by_sku", params, get_client(frame), o)
            IN  ServeTool("call_update_stock_tool", << sku, quantity, warehouse_name, failure >>,
                          t, o, call_update_stock_tool(t, failure))

ServerNext ==
    \/ GetStockByName
    \/ GetStockBySku
    \/ GetAllStock
    \/ UpdateStock
    \/ CallTool
    \/ CallUpdateStockTool

ServerSpec == ServerInit /\ [][ServerNext]_vars

(***************************************************************************)
(* C23  An update-stock-by-SKU request resolves the SKU and the warehouse  *)
(* name and then overrides the stock; when either resolution returns       *)
(* absent it fails with an entity-not-found error and submits no           *)
(* adjustment.                                                             *)
(***************************************************************************)
\* the operation the trace describes
ServedOp == trace[1]

IsBySkuRequest == ServedOp.ev = "served" /\ ServedOp.op = "call_update_stock_tool"

\* the request went through the resolutions and the override
ResolvedAndOverrode ==
    /\ Contains(ServedOp.client_calls, "get_item_by_sku")
    /\ Contains(ServedOp.client_calls, "override_item_stock_by_id")

\* the request ended with an entity-not-found error and no adjustment
EntityNotFound ==
    /\ "error" \in DOMAIN ServedOp.result
    /\ \E phrase \in {"Item not found: ", "Item not found with SKU: ", "Warehouse not found: "} :
          Contains(ServedOp.result["error"], phrase)
    /\ ~ Contains(ServedOp.client_calls, "override_item_stock_by_id")

\* C23: a completed update-stock-by-SKU request either resolved the SKU and
\* overrode the stock or failed with an entity-not-found error without
\* submitting an adjustment.
C23_BySkuResolvesThenOverrides ==
    IsBySkuRequest => (ResolvedAndOverrode \/ EntityNotFound)

(***************************************************************************)
(* C27  When the client raises an authentication error, each server        *)
(* operation returns JSON with an error field and no inventory data.       *)
(***************************************************************************)
ServerOperations == {"get_stock_by_name", "get_stock_by_sku", "get_all_stock", "update_stock"}

\* the client operation ended with an authentication error: token
\* unavailable, or still 401 after the retry
AuthenticationErrorRaised ==
    /\ ServedOp.ev = "served"
    /\ ServedOp.op \in ServerOperations
    /\ ServedOp.outcome \in {TokenUnavailableError, AuthenticationFailedError}

\* C27: after an authentication error of the client the returned JSON has
\* an error field and carries no inventory data.
C27_AuthenticationErrorSurfaced ==
    AuthenticationErrorRaised =>
        /\ "error" \in DOMAIN ServedOp.result
        /\ DOMAIN ServedOp.result \cap {"items", "item", "item_id", "stock_on_hand"} = {}

(***************************************************************************)
(* Two threads of one process inside refresh_access_token on the same      *)
(* ZohoAuth object.  auth_token, token_expiry and the cache file are       *)
(* shared; pc, data and frame are per thread (frame holds the locals of    *)
(* save_token).  A step is one read or write of shared state, so threads   *)
(* switch between any two of them.                                         *)
(***************************************************************************)
Threads == {"T1", "T2"}

\* the file right after open(TOKEN_FILE, "w"): truncated to nothing
TruncatedFile == MalformedFile

\* mutant: expires_at is the time of the write, without the lifetime
token_data_NoLifetime(token, expires_in, t) == TokenData(token, t)

\* the dictionary save_token builds before it opens the file
token_data(token, expires_in, t) == TokenData(token, t + expires_in)

\* locals of a thread that is not inside save_token
NoLocals == [token_data |-> EmptyDict]

ThreadsInit ==
    /\ impl = "split"
    /\ now = 0
    /\ cache = JsonFile(TokenData("t0", 0))
    /\ auth_token = "t0"
    /\ token_expiry = 0
    /\ headers = EmptyDict
    /\ pc = [t \in Threads |-> "post"]
    /\ caller = "ensure"
    /\ data = [t \in Threads |-> EmptyDict]
    /\ kwargs = EmptyDict
    /\ request_headers = EmptyDict
    /\ calls = 0
    /\ trace = << Ev("threads") >>
    /\ zoho = EmptyDict
    /\ frame = [t \in Threads |-> NoLocals]

ThreadStep(t, position) ==
    /\ pc' = [pc EXCEPT ![t] = position]
    /\ UNCHANGED <<zoho, impl, headers, caller, kwargs, request_headers, calls, trace>>

\* client.post(...); raise_for_status(); data = response.json()
ThreadPost(t) ==
    /\ pc[t] = "post"
    /\ \E o \in RefreshOutcomes :
          IF o.kind = "json"
          THEN /\ data' = [data EXCEPT ![t] = o.body]
               /\ ThreadStep(t, "assign")
          ELSE /\ data' = data
               /\ ThreadStep(t, "returned_False")
    /\ UNCHANGED <<now, cache, auth_token, token_expiry, frame>>

\* self.auth_token = data.get("access_token")
ThreadAssign(t) ==
    /\ pc[t] = "assign"
    /\ auth_token' = DictGet(data[t], "access_token", None)
    /\ ThreadStep(t, "test")
    /\ UNCHANGED <<now, cache, token_expiry, data, frame>>

\* if self.auth_token:
ThreadTest(t) ==
    /\ pc[t] = "test"
    /\ ThreadStep(t, IF Truthy(auth_token) THEN "call_save" ELSE "returned_False")
    /\ UNCHANGED <<now, cache, auth_token, token_expiry, data, frame>>

\* save_token(self.auth_token, expires_in) up to the open: the argument is
\* read from the shared attribute, the dictionary is built
ThreadCallSave(t) ==
    /\ pc[t] = "call_save"
    /\ frame' = [frame EXCEPT ![t].token_data =
                    token_data(auth_token, DictGet(data[t], "expires_in", DefaultExpiresIn), now)]
    /\ ThreadStep(t, "open")
    /\ UNCHANGED <<now, cache, auth_token, token_expiry, data>>

\* open(TOKEN_FILE, "w"): the file is truncated, or the open fails
ThreadOpen(t) ==
    /\ pc[t] = "open"
    /\ \/ /\ cache' = TruncatedFile
          /\ ThreadStep(t, "write")
       \/ /\ cache' = cache
          /\ ThreadStep(t, "returned_False")
    /\ UNCHANGED <<now, auth_token, token_expiry, data, frame>>

\* json.dump and close: the document is written from offset 0; over a
\* different document the other thread wrote since this thread's open, a
\* longer other document leaves its tail behind
ThreadWrite(t) ==
    /\ pc[t] = "write"
    /\ \/ cache' = JsonFile(frame[t].token_data)
       \/ /\ cache.kind = "json"
          /\ cache.obj /= frame[t].token_data
          /\ cache' = MalformedFile
    /\ ThreadStep(t, "expiry")
    /\ UNCHANGED <<now, auth_token, token_expiry, data, frame>>

\* self.token_expiry = time.time() + expires_in; return True
ThreadExpiry(t) ==
    /\ pc[t] = "expiry"
    /\ token_expiry' = now + DictGet(data[t], "expires_in", DefaultExpiresIn)
    /\ ThreadStep(t, "returned_True")
    /\ UNCHANGED <<now, cache, auth_token, data, frame>>

\* time passes while a thread is still running
ThreadsTick ==
    /\ \E t \in Threads : pc[t] \notin {"returned_True", "returned_False"}
    /\ \E d \in TickSteps :
          /\ now + d <= MaxTicks * Margin
          /\ now' = now + d
    /\ UNCHANGED <<zoho, frame, impl, cache, auth_token, token_expiry, headers, pc, caller, data,
                   kwargs, request_headers, calls, trace>>

ThreadsNext ==
    \/ \E t \in Threads : ThreadPost(t)
    \/ \E t \in Threads : ThreadAssign(t)
    \/ \E t \in Threads : ThreadTest(t)
    \/ \E t \in Threads : ThreadCallSave(t)
    \/ \E t \in Threads : ThreadOpen(t)
    \/ \E t \in Threads : ThreadWrite(t)
    \/ \E t \in Threads : ThreadExpiry(t)
    \/ ThreadsTick

ThreadsSpec == ThreadsInit /\ [][ThreadsNext]_vars

(***************************************************************************)
(* C25  Two overlapping refresh_access_token calls of two threads that     *)
(* both obtain a token: once both have completed, auth_token, token_expiry *)
(* and the cache file all describe the same one of the two issued tokens.  *)
(***************************************************************************)
\* the token issued to thread t and its lifetime
Issued(t) == DictGet(data[t], "access_token", None)

Lifetime(t) == DictGet(data[t], "expires_in", DefaultExpiresIn)

\* both calls obtained a token and completed
BothRefreshed == \A t \in Threads : pc[t] = "returned_True" /\ Truthy(Issued(t))

\* the instants of the run so far
Instants == { i * Margin : i \in 0..MaxTicks + 1 } \cap 0..now

\* x is an expiry of the token issued to t: an instant plus its lifetime
ExpiryOf(t, x) == \E i \in Instants : x = i + Lifetime(t)

\* the cache file describes the token issued to t
FileDescribes(t) ==
    /\ cache.kind = "json"
    /\ DictGet(cache.obj, "access_token", None) = Issued(t)
    /\ ExpiryOf(t, DictGet(cache.obj, "expires_at", 0))

\* as claimed: memory and file agree on one of the two tokens
C25_AsClaimed ==
    BothRefreshed =>
        \E t \in Threads :
            /\ auth_token = Issued(t)
            /\ ExpiryOf(t, token_expiry)
            /\ FileDescribes(t)

\* C25 (amended): once both calls have completed, auth_token is one of the
\* two issued tokens, token_expiry is an expiry of one of them, and the
\* cache file is unparseable or holds one of the issued tokens with an
\* expiry of one of them; the three need not be about the same token.
C25_EachFromOneOfTheRefreshes ==
    BothRefreshed =>
        /\ \E t \in Threads : auth_token = Issued(t)
        /\ \E t \in Threads : ExpiryOf(t, token_expiry)
        /\ \/ cache = MalformedFile
           \/ /\ cache.kind = "json"
              /\ \E t \in Threads : DictGet(cache.obj, "access_token", None) = Issued(t)
              /\ \E t \in Threads : ExpiryOf(t, DictGet(cache.obj, "expires_at", 0))

\* C25 witness: both calls completed with different tokens, and the token
\* in memory carries the other token's expiry
C25_Witness ==
    /\ BothRefreshed
    /\ Issued("T1") /= Issued("T2")
    /\ \E t \in Threads : auth_token = Issued(t) /\ ~ ExpiryOf(t, token_expiry)

(***************************************************************************)
(* Two processes, each with its own ZohoClient, sharing the token cache    *)
(* file.  auth_token, token_expiry, pc, caller, data and frame are per     *)
(* process; the file, the clock and the upstream (zoho: the tokens issued  *)
(* so far, the latest of them, and the entries written to the file so far) *)
(* are shared.  The refresh endpoint        *)
(* answers every exchange with a new token, and the API accepts the most   *)
(* recently issued token and answers 401 to any other.                     *)
(***************************************************************************)
Processes == {"P1", "P2"}

\* tokens the refresh endpoint issues over the run
MaxIssued == 5

TokenNames == << "t1", "t2", "t3", "t4", "t5", "t6", "t7", "t8" >>

\* the answer of the refresh endpoint to the exchange number n
IssuedBody(n) ==
    [k \in {"access_token", "expires_in"} |-> IF k = "access_token" THEN TokenNames[n] ELSE 2 * Margin]

\* the answer of the API to a request carrying token
ApiOutcome(token) ==
    [kind |-> "response", status_code |-> IF token = zoho.latest THEN 200 ELSE 401]

\* locals of make_api_request: how the last request of the process ended,
\* whether one of its refreshes returned False, and whether the other
\* process was issued a token between its forced refresh and its retry
NoRequest == [result |-> "none", refresh_failed |-> FALSE, overtaken |-> FALSE]

ProcessesInit ==
    /\ impl = "split"
    /\ now = 0
    /\ cache = MissingFile
    /\ auth_token = [p \in Processes |-> None]
    /\ token_expiry = [p \in Processes |-> 0]
    /\ headers = EmptyDict
    /\ pc = [p \in Processes |-> "init_load"]
    /\ caller = [p \in Processes |-> "init"]
    /\ data = [p \in Processes |-> EmptyDict]
    /\ kwargs = EmptyDict
    /\ request_headers = EmptyDict
    /\ calls = 0
    /\ trace = << Ev("processes") >>
    /\ zoho = [issued |-> 0, latest |-> None, stored |-> {}]
    /\ frame = [p \in Processes |-> NoRequest]

ProcessStep(p, position) ==
    /\ pc' = [pc EXCEPT ![p] = position]
    /\ UNCHANGED <<impl, headers, kwargs, request_headers, calls, trace>>

\* the request of p ends with result
ProcessReturn(p, result) ==
    /\ frame' = [frame EXCEPT ![p].result = result]
    /\ ProcessStep(p, "idle")

\* self.auth_token = load_token(); refresh when it is falsy
ProcessInitLoad(p) ==
    /\ pc[p] = "init_load"
    /\ auth_token' = [auth_token EXCEPT ![p] = load_token(cache, now)]
    /\ ProcessStep(p, IF Truthy(auth_token'[p]) THEN "init_expiry" ELSE "refresh_post")
    /\ UNCHANGED <<now, cache, token_expiry, caller, data, zoho, frame>>

\* the token came from the file: expires_at is read from the file again
ProcessInitExpiry(p) ==
    /\ pc[p] = "init_expiry"
    /\ IF cache.kind = "json"
       THEN /\ token_expiry' = [token_expiry EXCEPT ![p] = DictGet(cache.obj, "expires_at", 0)]
            /\ ProcessStep(p, "idle")
       ELSE /\ token_expiry' = token_expiry
            /\ ProcessStep(p, "refresh_post")
    /\ UNCHANGED <<now, cache, auth_token, caller, data, zoho, frame>>

\* a caller of p starts a request
ProcessRequest(p) ==
    /\ pc[p] = "idle"
    /\ frame' = [frame EXCEPT ![p] = NoRequest]
    /\ ProcessStep(p, "ensure")
    /\ UNCHANGED <<now, cache, auth_token, token_expiry, caller, data, zoho>>

\* ensure_valid_token
ProcessEnsure(p) ==
    /\ pc[p] = "ensure"
    /\ IF NeedsRefresh(now, token_expiry[p])
       THEN /\ caller' = [caller EXCEPT ![p] = "ensure"]
            /\ ProcessStep(p, "refresh_post")
       ELSE /\ caller' = caller
            /\ ProcessStep(p, "http1")
    /\ UNCHANGED <<now, cache, auth_token, token_expiry, data, zoho, frame>>

\* the other process is between its forced refresh and its retry
AwaitsRetry(q) == caller[q] = "retry" /\ pc[q] \in {"refresh_save", "http2"}

\* the exchange with the token endpoint: a new token is issued and assigned
ProcessRefreshPost(p) ==
    /\ pc[p] = "refresh_post"
    /\ zoho.issued < MaxIssued
    /\ LET body == IssuedBody(zoho.issued + 1) IN
          /\ zoho' = [zoho EXCEPT !.issued = @ + 1, !.latest = body["access_token"]]
          /\ data' = [data EXCEPT ![p] = body]
          /\ auth_token' = [auth_token EXCEPT ![p] = DictGet(body, "access_token", None)]
    /\ frame' = [q \in Processes |->
                    IF q /= p /\ AwaitsRetry(q) THEN [frame[q] EXCEPT !.overtaken = TRUE]
                    ELSE frame[q]]
    /\ ProcessStep(p, "refresh_save")
    /\ UNCHANGED <<now, cache, token_expiry, caller>>

\* save_token, self.token_expiry, and the return to the call site
ProcessRefreshSave(p) ==
    /\ pc[p] = "refresh_save"
    /\ \E w \in SaveOutcomes :
          LET expires_in == DictGet(data[p], "expires_in", DefaultExpiresIn) IN
          /\ cache' = save_token(cache, auth_token[p], expires_in, now, w)
          /\ zoho' = [zoho EXCEPT !.stored = IF w = "written" THEN @ \cup {cache'.obj} ELSE @]
          /\ IF w = "written"
             THEN /\ token_expiry' = [token_expiry EXCEPT ![p] = now + expires_in]
                  /\ frame' = frame
                  /\ ProcessStep(p, CASE caller[p] = "init" -> "idle"
                                      [] caller[p] = "ensure" -> "http1"
                                      [] OTHER -> "http2")
             ELSE /\ token_expiry' = token_expiry
                  /\ IF caller[p] = "init"
                     THEN frame' = frame /\ ProcessStep(p, "idle")
                     ELSE /\ frame' = [frame EXCEPT
                                          ![p].refresh_failed = TRUE,
                                          ![p].result = IF caller[p] = "ensure" THEN "TokenUnavailable"
                                                        ELSE "AuthenticationFailed"]
                          /\ ProcessStep(p, "idle")
    /\ UNCHANGED <<now, auth_token, caller, data>>

\* one HTTP attempt of make_api_request and what follows the response
ProcessHttp(p, attempt) ==
    /\ pc[p] = (IF attempt = 1 THEN "http1" ELSE "http2")
    /\ LET o == ApiOutcome(auth_token[p]) IN
          IF RefreshAndRetry(attempt, o)
          THEN /\ caller' = [caller EXCEPT ![p] = "retry"]
               /\ frame' = frame
               /\ ProcessStep(p, "refresh_post")
          ELSE /\ caller' = caller
               /\ ProcessReturn(p, IF o.status_code = 401 THEN "AuthenticationFailed" ELSE "ok")
    /\ UNCHANGED <<now, cache, auth_token, token_expiry, data, zoho>>

ProcessesTick ==
    /\ \E d \in TickSteps :
          /\ now + d <= MaxTicks * Margin
          /\ now' = now + d
    /\ UNCHANGED <<zoho, frame, impl, cache, auth_token, token_expiry, headers, pc, caller, data,
                   kwargs, request_headers, calls, trace>>

ProcessesNext ==
    \/ \E p \in Processes : ProcessInitLoad(p)
    \/ \E p \in Processes : ProcessInitExpiry(p)
    \/ \E p \in Processes : ProcessRequest(p)
    \/ \E p \in Processes : ProcessEnsure(p)
    \/ \E p \in Processes : ProcessRefreshPost(p)
    \/ \E p \in Processes : ProcessRefreshSave(p)
    \/ \E p \in Processes : ProcessHttp(p, 1)
    \/ \E p \in Processes : ProcessHttp(p, 2)
    \/ ProcessesTick

ProcessesSpec == ProcessesInit /\ [][ProcessesNext]_vars

(***************************************************************************)
(* C26  With two processes sharing the cache file and refreshing in any    *)
(* interleaving, every make_api_request of either process completes        *)
(* successfully, a superseded token being recovered from within the same   *)
(* request by a single forced refresh and retry.                           *)
(***************************************************************************)
\* the last request of p has ended
Completed(p) == pc[p] = "idle" /\ frame[p].result /= "none"

\* as claimed: every request whose refreshes obtained and stored their token
\* completes successfully
C26_AsClaimed ==
    \A p \in Processes :
        (Completed(p) /\ ~ frame[p].refresh_failed) => frame[p].result = "ok"

\* C26 (amended): a completed request has succeeded exactly when none of
\* its refreshes returned False and the other process was not issued a
\* token between its forced refresh and its retry.
C26_SucceedsUnlessOvertaken ==
    \A p \in Processes :
        Completed(p) =>
            (frame[p].result = "ok" <=> (~ frame[p].refresh_failed /\ ~ frame[p].overtaken))

\* C26 witness: a request whose forced refresh obtained a token has failed
\* because the other process was issued a newer one before the retry
C26_Witness ==
    \E p \in Processes :
        /\ Completed(p)
        /\ caller[p] = "retry"
        /\ frame[p].overtaken /\ ~ frame[p].refresh_failed
        /\ frame[p].result = "AuthenticationFailed"

(***************************************************************************)
(* C31  When ZohoAuth is constructed while another process may rewrite the *)
(* token cache file, the adopted pair (auth_token, token_expiry) is always *)
(* a pair that was stored together in the file.                            *)
(***************************************************************************)
\* the constructor of p adopts the token it loaded with the expires_at it
\* reads now
AdoptsFromFile(p) == pc[p] = "init_expiry" /\ pc'[p] = "idle"

\* the pair p holds, as an entry of the cache file
AdoptedPair(p) == TokenData(auth_token[p], token_expiry[p])

\* C31: whenever a constructor adopts a token and an expiry from the file,
\* the two were written to the file together by one save_token.
C31_AdoptedPairStoredTogether ==
    [][\A p \in Processes : AdoptsFromFile(p) => AdoptedPair(p)' \in zoho.stored]_vars

(***************************************************************************)
(* Two callers of override_item_stock_by_id on one upstream item, with the *)
(* same target quantity and the same warehouse scope.  pc and frame are    *)
(* per caller; the item document (zoho) is shared.  Each caller reads the  *)
(* quantity and then submits its adjustment, the steps of the two in any   *)
(* order.                                                                  *)
(***************************************************************************)
Callers == {"A", "B"}

\* locals of override_item_stock_by_id at its start
OverrideFrame(target_quantity, location_id) ==
    [target_quantity |-> target_quantity, location_id |-> location_id,
     current_quantity |-> 0, adjustment |-> 0, result |-> "none"]

OverlapInit ==
    /\ impl = "split"
    /\ now = 0
    /\ cache = MissingFile
    /\ auth_token = None
    /\ token_expiry = 0
    /\ headers = EmptyDict
    /\ pc = [c \in Callers |-> "stock_read"]
    /\ caller = "init"
    /\ data = EmptyDict
    /\ kwargs = EmptyDict
    /\ request_headers = EmptyDict
    /\ calls = 0
    /\ trace = << >>
    /\ zoho \in ItemDocs
    /\ \E q \in Targets, l \in Locations : frame = [c \in Callers |-> OverrideFrame(q, l)]

\* the call of c goes on at position, or ends with result
OverrideStep(c, position, result) ==
    /\ pc' = [pc EXCEPT ![c] = position]
    /\ frame' = [frame EXCEPT ![c].result = result]
    /\ UNCHANGED <<impl, now, cache, auth_token, token_expiry, headers, caller, data,
                   kwargs, request_headers, calls, trace>>

\* current_quantity = self.get_item_stock_by_id(item_id, location_id), the
\* adjustment and the branch on adjustment == 0
OverrideRead(c) ==
    /\ pc[c] = "stock_read"
    /\ \E ok \in BOOLEAN :
          LET current_quantity == get_item_stock_by_id(zoho, frame[c].location_id)
              adjustment == frame[c].target_quantity - current_quantity
          IN  IF ~ ok
              THEN OverrideStep(c, "stock_idle", "error")
              ELSE /\ pc' = [pc EXCEPT ![c] = IF adjustment /= 0 THEN "stock_post"
                                               ELSE IF Truthy(frame[c].location_id) THEN "stock_details"
                                               ELSE "stock_idle"]
                   /\ frame' = [frame EXCEPT ![c].current_quantity = current_quantity,
                                              ![c].adjustment = adjustment,
                                              ![c].result = IF pc'[c] = "stock_idle" THEN "warning" ELSE @]
                   /\ UNCHANGED <<impl, now, cache, auth_token, token_expiry, headers, caller,
                                  data, kwargs, request_headers, calls, trace>>
    /\ zoho' = zoho

\* the zero adjustment with a location_id: the item is fetched for the log
OverrideDetails(c) ==
    /\ pc[c] = "stock_details"
    /\ \E ok \in BOOLEAN : OverrideStep(c, "stock_idle", IF ok THEN "warning" ELSE "error")
    /\ zoho' = zoho

\* return self.adjust_inventory_by_item_id(item_id, adjustment, reason, location_id)
OverrideAdjust(c) ==
    /\ pc[c] = "stock_post"
    /\ \E ok \in BOOLEAN :
          LET payload == AdjustmentPayload(ItemId, frame[c].adjustment, frame[c].location_id)
          IN  /\ zoho' = IF ok THEN Applied(zoho, payload.line_items[1]) ELSE zoho
              /\ OverrideStep(c, "stock_idle", IF ok THEN "adjusted" ELSE "error")

OverlapNext ==
    \/ \E c \in Callers : OverrideRead(c)
    \/ \E c \in Callers : OverrideDetails(c)
    \/ \E c \in Callers : OverrideAdjust(c)

OverlapSpec == OverlapInit /\ [][OverlapNext]_vars

(***************************************************************************)
(* C32  When two override_item_stock_by_id calls for the same item,        *)
(* warehouse scope and target Q overlap, the upstream quantity after both  *)
(* have completed equals Q.                                                *)
(***************************************************************************)
\* the call of c has returned a result
Overrode(c) == pc[c] = "stock_idle" /\ frame[c].result \in {"adjusted", "warning"}

\* the quantity the upstream holds in the scope of the two calls
UpstreamQuantity == get_item_stock_by_id(zoho, frame["A"].location_id)

\* C32: once both calls have returned, the upstream quantity in their scope
\* is the target quantity.
C32_OverlappingOverridesReachTarget ==
    (\A c \in Callers : Overrode(c)) => UpstreamQuantity = frame["A"].target_quantity

(***************************************************************************)
(* The server's update_stock, with the client's update_item_stock followed *)
(* request by request: the lookup by name, then the PUT.  frame holds the  *)
(* module-level client and the locals of the running call; trace holds the *)
(* last call.                                                              *)
(***************************************************************************)
\* bodies of the answer to PUT items/{item_id}
UpdatedBodies(item, stock_on_hand) ==
    { EmptyDict,
      [k \in {"item"} |-> DictUpdate(item, [j \in {"stock_on_hand"} |-> stock_on_hand])] }

\* raise ValueError(f"Item not found: {name}")
ItemNotFoundError(name) == Raises("ValueError", << "Item not found: ", name >>)

NoUpdate == [item_name |-> None, quantity |-> 0, item |-> EmptyDict]

UpdateInit ==
    /\ impl = "mono"
    /\ now = 0
    /\ cache = MissingFile
    /\ auth_token = None
    /\ token_expiry = 0
    /\ headers = EmptyDict
    /\ pc = "serving"
    /\ caller = "init"
    /\ data = EmptyDict
    /\ kwargs = EmptyDict
    /\ request_headers = EmptyDict
    /\ calls = 0
    /\ trace = << >>
    /\ zoho = EmptyDict
    /\ \E configured \in BOOLEAN :
          frame = [zoho_client |-> None, configured |-> configured, update |-> NoUpdate]

\* update_stock ends: what update_item_stock did (o) becomes the JSON
UpdateReturn(events, o) ==
    /\ pc' = "serving"
    /\ trace' = trace \o events
                 \o << [ev |-> "result", outcome |-> o,
                        result |-> update_stock(frame.zoho_client, frame.update.item_name,
                                                frame.update.quantity, o)] >>
    /\ frame' = frame

\* update_stock(item_name, quantity): client = get_client(); without a
\* client the error is returned at once
InvokeUpdateStock ==
    /\ pc = "serving"
    /\ \E item_name \in Keys, quantity \in NewQuantities :
          LET client == get_client(frame)
              invoke == [ev |-> "invoke", op |-> "update_stock", item_name |-> item_name,
                         quantity |-> quantity]
          IN  /\ frame' = [frame EXCEPT !.zoho_client = client,
                                        !.update = [item_name |-> item_name, quantity |-> quantity,
                                                    item |-> EmptyDict]]
              /\ IF client = None
                 THEN /\ pc' = "serving"
                      /\ trace' = << invoke,
                                     [ev |-> "result", outcome |-> [kind |-> "none"],
                                      result |-> update_stock(client, item_name, quantity,
                                                              [kind |-> "none"])] >>
                 ELSE /\ pc' = "update_lookup"
                      /\ trace' = << invoke >>
    /\ UNCHANGED <<zoho, impl, now, cache, auth_token, token_expiry, headers, caller, data,
                   kwargs, request_headers, calls>>

\* update_item_stock: item = self.get_item_by_name(name) and the test of it
UpdateItemStockLookup ==
    /\ pc = "update_lookup"
    /\ LET name == frame.update.item_name IN
       \E o \in { Returns(body) : body \in ItemsBodies } \cup ClientErrors :
          LET get == Request("GET", << "items" >>, [k \in {"name"} |-> name], o.kind = "return")
              item == get_item_by_name(o.value, name)
          IN  IF o.kind = "raise" THEN UpdateReturn(<< get >>, o)
              ELSE IF item = EmptyDict
              THEN UpdateReturn(<< get, [ev |-> "looked_up", body |-> o.value, item |-> item] >>,
                                ItemNotFoundError(name))
              ELSE /\ pc' = "update_put"
                   /\ frame' = [frame EXCEPT !.update.item = item]
                   /\ trace' = trace \o << get, [ev |-> "looked_up", body |-> o.value, item |-> item] >>
    /\ UNCHANGED <<zoho, impl, now, cache, auth_token, token_expiry, headers, caller, data,
                   kwargs, request_headers, calls>>

\* update_item_stock: the PUT to items/{item_id} and what it returns
UpdateItemStockPut ==
    /\ pc = "update_put"
    /\ LET item_id == DictGet(frame.update.item, "item_id", None)
           json == [k \in {"stock_on_hand"} |-> frame.update.quantity]
       IN  \E o \in { Returns(body) : body \in UpdatedBodies(frame.update.item, frame.update.quantity) }
                     \cup ClientErrors :
              UpdateReturn(<< Request("PUT", << "items", item_id >>, json, o.kind = "return") >>,
                           IF o.kind = "raise" THEN o
                           ELSE Returns(DictGet(o.value, "item", EmptyDict)))
    /\ UNCHANGED <<zoho, impl, now, cache, auth_token, token_expiry, headers, caller, data,
                   kwargs, request_headers, calls>>

UpdateNext ==
    \/ InvokeUpdateStock
    \/ UpdateItemStockLookup
    \/ UpdateItemStockPut

UpdateSpec == UpdateInit /\ [][UpdateNext]_vars

(***************************************************************************)
(* C37  update_item_stock(name, quantity) issues a PUT to items/{item_id}  *)
(* only after get_item_by_name found an exact match; when the name         *)
(* resolves to nothing it raises an item-not-found error and issues no     *)
(* PUT, and the server's update_stock then returns success = false with    *)
(* that error.                                                             *)
(***************************************************************************)
\* the PUT requests and the lookups of the call in the trace
Puts == SelectSeq(trace, LAMBDA e : e.ev = "request" /\ e.method = "PUT")

Lookups == SelectSeq(trace, LAMBDA e : e.ev = "looked_up")

\* the items of the listing whose name is the name asked for
ExactMatches(body, name) ==
    LET items == DictGet(body, "items", << >>)
    IN  { items[i] : i \in { j \in 1..Len(items) : DictGet(items[j], "name", None) = name } }

\* the lookup of the call has been answered with no item of that name
ResolvedToNothing ==
    /\ Lookups /= << >>
    /\ ExactMatches(Lookups[1].body, trace[1].item_name) = {}

UpdateEnded == pc = "serving" /\ trace /= << >>

\* C37: a PUT follows a lookup that listed an item of exactly that name and
\* goes to the id of such an item; after a lookup that listed none there
\* is no PUT and the call ends with success false and the item-not-found
\* error.
C37_PutOnlyAfterExactMatch ==
    /\ \A i \in 1..Len(trace) :
          (trace[i].ev = "request" /\ trace[i].method = "PUT") =>
              /\ i > 1 /\ trace[i - 1].ev = "looked_up"
              /\ \E item \in ExactMatches(trace[i - 1].body, trace[1].item_name) :
                    trace[i].endpoint = << "items", DictGet(item, "item_id", None) >>
    /\ ResolvedToNothing =>
          /\ Puts = << >>
          /\ UpdateEnded
          /\ trace[Len(trace)].result =
                 [success |-> FALSE, error |-> << "Item not found: ", trace[1].item_name >>]

\* C37 witness: the listing held items, none of them of the name asked for,
\* and the call ended with the error and no PUT
C37_Witness ==
    /\ ResolvedToNothing
    /\ DictGet(Lookups[1].body, "items", << >>) /= << >>
    /\ UpdateEnded
    /\ Puts = << >>
    /\ trace[Len(trace)].result["success"] = FALSE

(***************************************************************************)
(* The module-level client of the server over a sequence of get_client     *)
(* calls, with the environment changing between the calls.  frame holds    *)
(* zoho_client (None or the instance), os.environ and the number of        *)
(* instances constructed so far; trace holds one event per call.           *)
(***************************************************************************)
\* get_client calls of a run
MaxGetClient == 3

\* ZohoInventoryClient(): no argument is passed
NoArgs == [c \in Credentials |-> None]

\* the instances ZohoInventoryClient() returns, in the order of construction
Instances == << "client-1", "client-2", "client-3", "client-4" >>

\* mutant: the client is constructed on every call
NeedsConstruction_Always(zoho_client) == TRUE

\* if zoho_client is None
NeedsConstruction(zoho_client) == zoho_client = None

\* how ZohoInventoryClient() ends in environment f.environ with the cache
\* file as it is: a ValueError for a missing credential, the PermissionError
\* of TOKEN_FILE.exists(), or an instance
Construction(f, file) ==
    IF \E c \in Credentials : ~ Truthy(ConfiguredCredentials(f)[c]) THEN "ValueError"
    ELSE IF load_token(file, 0) = PermissionError THEN "PermissionError"
    ELSE "constructed"

SingletonInit ==
    /\ impl = "mono"
    /\ now = 0
    /\ cache \in InitialFiles
    /\ auth_token = None
    /\ token_expiry = 0
    /\ headers = EmptyDict
    /\ pc = "serving"
    /\ caller = "init"
    /\ data = EmptyDict
    /\ kwargs = EmptyDict
    /\ request_headers = EmptyDict
    /\ calls = 0
    /\ trace = << >>
    /\ zoho = EmptyDict
    /\ \E environ \in Environs :
          frame = [zoho_client |-> None, args |-> NoArgs, environ |-> environ, constructed |-> 0]

\* the environment or the cache file changes between two calls: a variable
\* is set or unset, the file becomes accessible or inaccessible
SetEnviron ==
    /\ \/ /\ \E name \in EnvNames :
                 frame' = [frame EXCEPT !.environ =
                              IF name \in DOMAIN @ THEN [k \in DOMAIN @ \ {name} |-> @[k]]
                              ELSE DictUpdate(@, [k \in {name} |-> "env"])]
          /\ cache' = cache
       \/ /\ cache' \in InitialFiles \ {cache}
          /\ frame' = frame
    /\ UNCHANGED <<zoho, impl, now, auth_token, token_expiry, headers, pc, caller, data,
                   kwargs, request_headers, calls, trace>>

\* get_client(): the instance is constructed when there is none; only the
\* constructor's ValueError is caught
GetClient ==
    /\ calls < MaxGetClient
    /\ calls' = calls + 1
    /\ LET attempted == NeedsConstruction(frame.zoho_client)
           outcome == IF attempted THEN Construction(frame, cache) ELSE "none"
           instance == Instances[frame.constructed + 1]
           after == IF outcome = "constructed" THEN instance ELSE frame.zoho_client
       IN  /\ frame' = [frame EXCEPT !.zoho_client = after,
                                     !.constructed = IF outcome = "constructed" THEN @ + 1 ELSE @]
           /\ trace' = Append(trace,
                  [ev |-> "get_client", attempted |-> attempted, outcome |-> outcome,
                   returned |-> CASE outcome = "ValueError" -> None
                                  [] outcome = "PermissionError" -> PermissionError
                                  [] OTHER -> after,
                   zoho_client |-> after])
    /\ UNCHANGED <<zoho, impl, now, cache, auth_token, token_expiry, headers, pc, caller, data,
                   kwargs, request_headers>>

SingletonNext ==
    \/ SetEnviron
    \/ GetClient

SingletonSpec == SingletonInit /\ [][SingletonNext]_vars

(***************************************************************************)
(* C38  Across any sequence of get_client calls, the client is constructed *)
(* successfully at most once: a construction that fails with a             *)
(* configuration error leaves the singleton unset so the next call tries   *)
(* again, and after the first success every call returns that same         *)
(* instance without constructing another.                                  *)
(***************************************************************************)
\* the calls that constructed an instance
Constructions == { i \in 1..Len(trace) : trace[i].outcome = "constructed" }

\* C38: at most one instance is constructed; a call whose construction
\* failed with the configuration error returns None and leaves zoho_client
\* None, and the call after it attempts the construction; every call after
\* a successful one attempts none and returns the instance of that one.
C38_ConstructedAtMostOnce ==
    /\ frame.constructed <= 1
    /\ \A i \in 1..Len(trace) :
          /\ trace[i].outcome = "ValueError" =>
                /\ trace[i].returned = None
                /\ trace[i].zoho_client = None
                /\ i < Len(trace) => trace[i + 1].attempted
          /\ \A j \in Constructions :
                j < i => (~ trace[i].attempted /\ trace[i].returned = trace[j].returned)

\* C38 witness: a call failed with the configuration error, the next one
\* constructed the client, and the one after it returned that instance
C38_Witness ==
    /\ Len(trace) = 3
    /\ trace[1].outcome = "ValueError"
    /\ trace[2].outcome = "constructed"
    /\ trace[3].outcome = "none"
    /\ trace[3].returned = trace[2].returned

(***************************************************************************)
(* The synchronization script's update_all_stock: one iteration of its     *)
(* loop per step.  frame holds stock_data (the items of the dictionary in  *)
(* their order), the position of the loop and results; trace holds the     *)
(* tool calls made through the session.                                    *)
(***************************************************************************)
\* keys of stock_data
MaxKeys == 3

\* warehouse names of the keys: CURRENT LOCATION may be missing
SyncWarehouses == {"", "Main"}

StockKeys == SkuCodes \X SyncWarehouses

\* dict.items(): the keys are distinct and keep their order
StockData ==
    { d \in UNION { [1..n -> [key : StockKeys, quantity : NewQuantities]] : n \in 0..MaxKeys } :
        \A i, j \in 1..Len(d) : d[i].key = d[j].key => i = j }

\* the parameters call_update_stock_tool sends
ToolParams(sku, quantity, reason, warehouse_name) ==
    IF Truthy(warehouse_name)
    THEN [sku |-> sku, quantity |-> quantity, reason |-> reason, warehouse_name |-> warehouse_name]
    ELSE [sku |-> sku, quantity |-> quantity, reason |-> reason]

\* what session.call_tool("update_stock_by_sku", params) may do: what this
\* server's call_tool does with that name, or the answer of a server that
\* has the tool
ToolAnswers(params) ==
    { call_tool("update_stock_by_sku", params, "ZohoInventoryClient", TokenUnavailableError),
      Returns([success |-> TRUE]),
      Returns([error |-> << "Item not found with SKU: ", params.sku >>]) }

SyncInit ==
    /\ impl = "mono"
    /\ now = 0
    /\ cache = MissingFile
    /\ auth_token = None
    /\ token_expiry = 0
    /\ headers = EmptyDict
    /\ pc = "sync_loop"
    /\ caller = "init"
    /\ data = EmptyDict
    /\ kwargs = EmptyDict
    /\ request_headers = EmptyDict
    /\ calls = 0
    /\ trace = << >>
    /\ zoho = EmptyDict
    /\ \E stock_data \in StockData : frame = [stock_data |-> stock_data, results |-> << >>]

\* one turn of 'for (sku, warehouse), quantity in stock_data.items()':
\* the tool call, and its result appended to results; an exception leaving
\* call_update_stock_tool would leave update_all_stock too
UpdateAllStockStep ==
    /\ pc = "sync_loop"
    /\ calls < Len(frame.stock_data)
    /\ LET item == frame.stock_data[calls + 1]
           sku == item.key[1]
           warehouse == item.key[2]
           params == ToolParams(sku, item.quantity, "Inventory sync from spreadsheet", warehouse)
       IN  \E t \in ToolAnswers(params), failure \in ToolFailures :
              LET result == call_update_stock_tool(t, failure) IN
              /\ trace' = Append(trace, [ev |-> "call_tool", name |-> "update_stock_by_sku",
                                         params |-> params, answer |-> t.kind])
              /\ IF DOMAIN result = {"kind", "type", "message"}
                 THEN /\ pc' = "sync_raised"
                      /\ frame' = frame
                 ELSE /\ pc' = "sync_loop"
                      /\ frame' = [frame EXCEPT !.results =
                                       Append(@, [sku |-> sku, warehouse |-> warehouse,
                                                  quantity |-> item.quantity, result |-> result])]
    /\ calls' = calls + 1
    /\ UNCHANGED <<zoho, impl, now, cache, auth_token, token_expiry, headers, caller, data,
                   kwargs, request_headers>>

\* return results
UpdateAllStockReturn ==
    /\ pc = "sync_loop"
    /\ calls = Len(frame.stock_data)
    /\ pc' = "sync_done"
    /\ UNCHANGED <<zoho, frame, impl, now, cache, auth_token, token_expiry, headers, caller,
                   data, kwargs, request_headers, calls, trace>>

SyncNext ==
    \/ UpdateAllStockStep
    \/ UpdateAllStockReturn

SyncSpec == SyncInit /\ [][SyncNext]_vars

(***************************************************************************)
(* C39  update_all_stock issues exactly one update-stock tool call per     *)
(* (SKU, warehouse) key of its input, in the input's order, and a failing  *)
(* call does not stop the run: the failure is recorded as an error result  *)
(* for that key and the remaining keys are still processed, so the result  *)
(* list has one entry per key.                                             *)
(***************************************************************************)
\* the i-th tool call and the i-th result are about the i-th key
AboutKey(i) ==
    LET item == frame.stock_data[i]
        params == trace[i].params
        entry == frame.results[i]
    IN  /\ params.sku = item.key[1]
        /\ params.quantity = item.quantity
        /\ DictGet(params, "warehouse_name", "") = item.key[2]
        /\ entry.sku = item.key[1]
        /\ entry.warehouse = item.key[2]
        /\ entry.quantity = item.quantity
        /\ trace[i].answer = "raise" => "error" \in DOMAIN entry.result

\* C39: the run never ends by an exception; the tool calls made so far and
\* the results are one per key processed, in the order of the input; and
\* the results returned are one per key of the input.
C39_OneCallAndResultPerKey ==
    /\ pc /= "sync_raised"
    /\ Len(trace) = calls
    /\ Len(frame.results) = calls
    /\ \A i \in 1..calls : AboutKey(i)
    /\ pc = "sync_done" => calls = Len(frame.stock_data)

\* C39 witness: the run has returned its results for the largest input,
\* the first call having failed and the last one succeeded
C39_Witness ==
    /\ pc = "sync_done"
    /\ Len(frame.stock_data) = MaxKeys
    /\ trace[1].answer = "raise"
    /\ "error" \in DOMAIN frame.results[1].result
    /\ frame.results[MaxKeys].result = [success |-> TRUE]

(***************************************************************************)
(* C33  A make_api_request call terminates after at most 2 HTTP calls and  *)
(* at most 2 refresh exchanges, one from the margin check and one forced   *)
(* by a 401, provided each network call returns.                           *)
(***************************************************************************)
\* the steps make_api_request still has before it, at most, from its
\* position: the margin check, its refresh, the first attempt, the forced
\* refresh, the retry
StepsLeft ==
    CASE pc = "ensure" -> 9
      [] pc = "refresh_post" /\ caller = "ensure" -> 8
      [] pc = "refresh_save" /\ caller = "ensure" -> 7
      [] pc = "refresh_expiry" /\ caller = "ensure" -> 6
      [] pc = "http1" -> 5
      [] pc = "refresh_post" /\ caller = "retry" -> 4
      [] pc = "refresh_save" /\ caller = "retry" -> 3
      [] pc = "refresh_expiry" /\ caller = "retry" -> 2
      [] pc = "http2" -> 1
      [] OTHER -> 0

\* a step of a running make_api_request (the clock alone is no step)
CallStep == IsCall /\ pc /= "idle" /\ trace' /= trace

\* C33: every step of a running make_api_request brings the call nearer to
\* its end, and the call never has sent more than 2 HTTP calls or made more
\* than one refresh exchange from the margin check and one forced by a 401.
C33_TerminatesWithinBounds ==
    [][CallStep =>
          /\ StepsLeft' < StepsLeft
          /\ Len(Https') <= 2
          /\ Len(ExchangesVia("ensure")') <= 1
          /\ Len(ExchangesVia("retry")') <= 1
          /\ Len(Exchanges') <= 2]_vars

\* C33 witness: a call has returned after 2 HTTP calls and 2 exchanges
C33_Witness ==
    /\ IsCall /\ Ended
    /\ Is(Len(trace), "return")
    /\ Len(Https) = 2
    /\ Len(Exchanges) = 2

(***************************************************************************)
(* C34  If the refresh during construction fails, construction still       *)
(* completes with no token and an expired expiry, and every later          *)
(* make_api_request attempts a refresh before any HTTP call and sends an   *)
(* HTTP call only after a refresh has succeeded.                           *)
(***************************************************************************)
\* the constructor has run its refresh, which returned False
ConstructionRefreshFailed ==
    /\ trace[1] = Ev("__init__")
    /\ RefreshEnded("init", FALSE)

\* no refresh has succeeded since such a construction: token_expiry is
\* still the 0 the constructor starts from
NeverRefreshed == IsCall /\ trace[1].expiry = 0

\* trace[h] comes after a refresh that returned True
AfterSuccessfulRefresh(h) ==
    \E i \in 1..(h - 1) : Is(i, "refresh_end") /\ trace[i].ok

\* C34: a construction whose refresh failed has completed with no token and
\* token_expiry 0; a request started before any refresh has succeeded
\* begins with a refresh and sends HTTP calls only after a successful one.
C34_FailedConstructionRefreshesFirst ==
    /\ ConstructionRefreshFailed =>
          /\ pc \in {"init_headers", "idle"}
          /\ pc = "idle" => Is(Len(trace), "constructed")
          /\ auth_token = None
          /\ token_expiry = 0
    /\ NeverRefreshed =>
          /\ Len(trace) >= 2 => trace[2].refresh
          /\ \A h \in Idx : Is(h, "http") => AfterSuccessfulRefresh(h)

(***************************************************************************)
(* C35  After a successful refresh_access_token, an ensure_valid_token     *)
(* call made before any time has passed returns true without a second      *)
(* refresh exchange, for every expires_in the refresh endpoint may return. *)
(***************************************************************************)
\* ensure_valid_token of this call has run, at the instant at which the
\* last refresh before the call set token_expiry
EnsureRightAfterRefresh ==
    /\ IsCall
    /\ trace[1].last_refresh.ev = "expiry_set"
    /\ Len(trace) >= 2
    /\ Is(2, "ensure")
    /\ trace[2].at = trace[1].last_refresh.at

\* the lifetime that refresh was given
GrantedLifetime == trace[1].last_refresh.expiry - trace[1].last_refresh.at

\* as claimed: no second refresh, whatever the lifetime
C35_AsClaimed ==
    EnsureRightAfterRefresh => ~ trace[2].refresh

\* C35 (amended): right after a successful refresh ensure_valid_token
\* refreshes again exactly when the lifetime granted is shorter than the
\* margin; with a lifetime of the margin or more it goes on to the HTTP call
\* without an exchange.
C35_NoSecondRefreshFromMarginUp ==
    EnsureRightAfterRefresh =>
        /\ trace[2].refresh <=> GrantedLifetime < Margin
        /\ (GrantedLifetime >= Margin /\ Len(trace) >= 3) =>
              /\ Is(3, "http")
              /\ ExchangesVia("ensure") = << >>

\* C35 witness: a refresh granted a lifetime below the margin, and the
\* ensure_valid_token that follows at the same instant has exchanged again
C35_Witness ==
    /\ EnsureRightAfterRefresh
    /\ GrantedLifetime < Margin
    /\ Len(ExchangesVia("ensure")) = 1

(***************************************************************************)
(* C40  After construction the cached self.headers of a                    *)
(* ZohoInventoryClient carries the Authorization value built from the      *)
(* current self.auth_token.                                                *)
(***************************************************************************)
\* the monolithic client is constructed and between two of its statements
\* that a caller or the upstream can observe: at rest, or about to send
Observable == impl = "mono" /\ pc \in {"idle", "http1", "http2"}

\* C40: whenever a constructed ZohoInventoryClient is at rest or about to
\* send an HTTP call, self.headers equals the headers built from the
\* current self.auth_token.
C40_HeadersFollowToken ==
    Observable => headers = get_headers(auth_token)

(***************************************************************************)
(* C36  Driven by the same cache contents, clock values and responses, the *)
(* monolithic client and the split client issue the same HTTP calls with   *)
(* the same Authorization header and end every request alike.              *)
(***************************************************************************)
\* The two clients share every step of the model but the source of the
\* authentication headers (BaseHeaders), and no step reads the headers to
\* decide anything: from the same inputs they reach the same positions with
\* the same auth_token, token_expiry and cache.  They send the same HTTP
\* calls exactly when, at every send, both sources give the same headers.

\* C36: whenever the monolithic client is about to send an HTTP call, the
\* request headers it builds and the ones the split client builds from the
\* same token are the same, on the first attempt and on the retry.
C36_SameHeadersFromBothClients ==
    impl = "mono" =>
        /\ pc = "http1" =>
              FirstHeaders("mono", auth_token, headers, kwargs)
                = FirstHeaders("split", auth_token, headers, kwargs)
        /\ pc = "http2" =>
              RetryHeaders("mono", auth_token, headers, kwargs, request_headers)
                = RetryHeaders("split", auth_token, headers, kwargs, request_headers)

====
